---- MODULE Spec2Model ----
(***************************************************************************)
(* Logwatch AI Analyzer: the main run (src/src/analyzer.js), the Claude    *)
(* client and the Telegram client (src/src/telegram-client.js), the        *)
(* logwatch reader (src/unnamed/part_003) and the configuration            *)
(* (src/config/config.js).                                                 *)
(*                                                                         *)
(* Text is modelled as a sequence of tokens.  A token is either the        *)
(* newline character NL or a block: a run of c.n characters none of which  *)
(* is a newline, esc of which are markdown special characters.  The length *)
(* of a text (JavaScript .length) is the sum of the n of its tokens.       *)
(***************************************************************************)
EXTENDS Naturals, Integers, Sequences, FiniteSets, TLC

VARIABLES
  pc,               \* position of the run in main()
  configValid,      \* environment: does new Config() pass getRequired and validate
  ctorFailure,      \* environment: the component whose constructor throws ("none" for none)
  alertsChannelId,  \* config.telegram.alertsChannelId (NULL when not set)
  storageEnabled,   \* storage.enabled
  fileState,        \* environment: the logwatch output file
  logContent,       \* what readLogwatchOutput returned
  attempt,          \* loop counter of analyzeLogwatch
  llmLog,           \* every attempt and every sleep of analyzeLogwatch
  llmContent,       \* response.content[0].text of the last response
  analysis,         \* the analysis returned by analyzeLogwatch
  saved,            \* did saveSummary return an insert id
  runError,         \* message of the error caught by main's catch
  errLog,           \* logger.error calls of main and sendError
  exits,            \* the statuses passed to process.exit, in order
  tgCtx,        \* which call of the Telegram client is running: "none", "direct", "report", "error"
  tgPc,         \* position inside the Telegram client
  tgMessage,    \* the argument of sendMessage
  tgChunks,     \* the result of splitMessage (<<>> when the message is sent whole)
  tgQueue,      \* the texts handed to sendSingleMessage, in order
  tgIdx,        \* index in tgQueue of the text being sent
  tgTry,        \* 1 = first attempt of sendSingleMessage, 2 = the retry
  tgLog,        \* every bot.api.sendMessage call and every sleep of the Telegram client
  sent,         \* the messages the Telegram API accepted, in order
  ppPc,         \* preprocessor: "idle", "ready" (content given) or "done"
  ppContent,    \* the text handed to the preprocessor
  ppOp,         \* the method applied: "estimateTokens", "deduplicate" or "preprocess"
  ppOut,        \* what the method returned
  ppStats,      \* this.stats of the preprocessor
  dbOpen,       \* storage: this.db is a database
  dbRows,       \* the rows of the summaries table in memory
  dbFile,       \* the rows of the summaries table in the database file
  stCall,       \* the last call made on the storage, with what it returned
  stErrors,     \* the operations of the storage that logged a failure during main
  dbFaults,     \* the statements on the database that throw during this run of main
  lgLevel,      \* logger: the configured level
  lgFiles,      \* the log files: index 0 is the active file, k is suffix .k
  lgNext,       \* the number of the next line the logger is asked to write
  lgCall,       \* the last call of the logger, with what it did
  lgFault,      \* the file operation of the logger that throws, if any
  cfPc,         \* configuration: "idle", "ready" (environment given) or "done"
  cfEnv,        \* the environment variables new Config() reads
  cfOut,        \* what new Config() gave: the error thrown, or the settings
  rdPc,         \* reader: "idle", "ready" (file given) or "done"
  rdFile,       \* the digest file and the settings of the reader
  rdOut,        \* what readLogwatchOutput gave: the error thrown, or the content
  ldPc,         \* module loading: how many modules of the import order are evaluated
  ldConfigured, \* config.app.logLevel
  loggerInstance, \* the singleton of getLogger exists
  ovPc,         \* two overlapping runs: the position of each run
  ovRows        \* two overlapping runs: the in-memory image of each run

mainVars == <<pc, configValid, ctorFailure, alertsChannelId, storageEnabled, fileState,
              logContent, attempt, llmLog, llmContent, analysis, saved, runError,
              errLog, exits>>

tgVars == <<tgCtx, tgPc, tgMessage, tgChunks, tgQueue, tgIdx, tgTry, tgLog, sent>>

ppVars == <<ppPc, ppContent, ppOp, ppOut, ppStats>>

stVars == <<dbOpen, dbRows, dbFile, stCall, stErrors, dbFaults>>

lgVars == <<lgLevel, lgFiles, lgNext, lgCall, lgFault>>

ovVars == <<ovPc, ovRows>>

ldVars == <<ldPc, ldConfigured, loggerInstance>>

rdVars == <<rdPc, rdFile, rdOut>>

cfVars == <<cfPc, cfEnv, cfOut>>

vars == <<pc, configValid, ctorFailure, alertsChannelId, storageEnabled, fileState,
          logContent, attempt, llmLog, llmContent, analysis, saved, runError,
          errLog, exits,
          tgCtx, tgPc, tgMessage, tgChunks, tgQueue, tgIdx, tgTry, tgLog, sent,
          ppPc, ppContent, ppOp, ppOut, ppStats,
          dbOpen, dbRows, dbFile, stCall, stErrors, dbFaults,
          lgLevel, lgFiles, lgNext, lgCall, lgFault,
          cfPc, cfEnv, cfOut,
          rdPc, rdFile, rdOut,
          ldPc, ldConfigured, loggerInstance,
          ovPc, ovRows>>

----------------------------------------------------------------------------
(* Bounds of the model *)

MaxMsgTokens == 4      \* longest message, in tokens, handed directly to sendMessage

----------------------------------------------------------------------------
(* Text *)

NL == [c |-> "\n", n |-> 1, esc |-> 0]

Blk(name, len, special) == [c |-> name, n |-> len, esc |-> special]

\* a literal string without newline and without markdown special characters
Lit(str) == [c |-> str, n |-> Len(str), esc |-> 0]

\* JavaScript .length: the sum of the lengths of the two halves, each half
\* taken once
RECURSIVE StrLen(_)
StrLen(s) ==
  IF Len(s) = 0 THEN 0
  ELSE IF Len(s) = 1 THEN s[1].n
  ELSE CHOOSE total \in
         { StrLen(left) + StrLen(right) :
             left \in {SubSeq(s, 1, Len(s) \div 2)},
             right \in {SubSeq(s, Len(s) \div 2 + 1, Len(s))} } : TRUE

\* the concatenation of a sequence of texts, joined by halves
RECURSIVE Flatten(_)
Flatten(ss) ==
  IF Len(ss) = 0 THEN <<>>
  ELSE IF Len(ss) = 1 THEN ss[1]
  ELSE Flatten(SubSeq(ss, 1, Len(ss) \div 2)) \o Flatten(SubSeq(ss, Len(ss) \div 2 + 1, Len(ss)))

\* the k-th smallest element of a set of numbers, counting from 0
Nth(set, k) == CHOOSE i \in set : Cardinality({j \in set : j < i}) = k

\* the texts of s between consecutive elements of cuts
Between(s, cuts) ==
  [k \in 1..(Cardinality(cuts) - 1) |-> SubSeq(s, Nth(cuts, k - 1) + 1, Nth(cuts, k) - 1)]

\* String.prototype.split('\n'): the texts between consecutive newlines,
\* the start and the end of s counting as newlines at 0 and Len(s) + 1
split(s) ==
  CHOOSE lines \in
    { Between(s, cuts) : cuts \in {{i \in 1..Len(s) : s[i] = NL} \cup {0, Len(s) + 1}} } : TRUE

----------------------------------------------------------------------------
(* Configuration (config/config.js) *)

maxMessageLength == 4096
retryDelay == 5000
maxRetries == 3

\* telegram-client.js: "-50 for part indicator"
PartIndicatorReserve == 50

\* telegram-client.js: pause between two parts of a split message
PartPause == 1000

\* The one chat this client sends to (this.chatId).  It receives every
\* report, which is the role of the archive channel.
chatId == "archive"

----------------------------------------------------------------------------
(* TelegramClient.splitMessage *)

\* a plausible slip: the part is reset after the line was added, so the
\* line that did not fit is lost
RECURSIVE splitLoop_losesLine(_, _, _)
splitLoop_losesLine(lines, parts, currentPart) ==
  IF lines = <<>>
  THEN IF currentPart # <<>> THEN Append(parts, currentPart) ELSE parts
  ELSE LET line == Head(lines)
           flush == /\ StrLen(currentPart) + StrLen(line) + 1
                         > maxMessageLength - PartIndicatorReserve
                    /\ currentPart # <<>>
       IN CHOOSE result \in
            { splitLoop_losesLine(Tail(lines), nextParts, nextPart) :
                nextParts \in {IF flush THEN Append(parts, currentPart) ELSE parts},
                nextPart \in {IF flush THEN <<>> ELSE currentPart \o line \o <<NL>>} } : TRUE

\* the for loop of splitMessage and the final push; nextParts and nextPart
\* are parts and currentPart after the iteration, each computed once
RECURSIVE splitLoop(_, _, _)
splitLoop(lines, parts, currentPart) ==
  IF lines = <<>>
  THEN IF currentPart # <<>> THEN Append(parts, currentPart) ELSE parts
  ELSE LET line == Head(lines)
           flush == /\ StrLen(currentPart) + StrLen(line) + 1
                         > maxMessageLength - PartIndicatorReserve
                    /\ currentPart # <<>>
       IN CHOOSE result \in
            { splitLoop(Tail(lines), nextParts, nextPart) :
                nextParts \in {IF flush THEN Append(parts, currentPart) ELSE parts},
                nextPart \in {(IF flush THEN <<>> ELSE currentPart) \o line \o <<NL>>} } : TRUE

splitMessage(message) == splitLoop(split(message), <<>>, <<>>)

\* `[Part ${i + 1}/${parts.length}]\n\n${part}`
PartMessage(k, total, part) ==
  <<Lit("[Part " \o ToString(k) \o "/" \o ToString(total) \o "]"), NL, NL>> \o part

----------------------------------------------------------------------------
(* TelegramClient.sendMessage, sendSplitMessage, sendSingleMessage *)

TgEvent(kind, ctx, i, ok, ms) == [e |-> kind, ctx |-> ctx, i |-> i, ok |-> ok, ms |-> ms]

\* sendMessage up to its first bot.api.sendMessage call: the message is sent
\* whole when it fits, otherwise split and prefixed
SendMessageCall(ctx, message) ==
  \E parts \in { IF StrLen(message) <= maxMessageLength THEN <<>> ELSE splitMessage(message) } :
     /\ tgCtx' = ctx
     /\ tgMessage' = message
     /\ tgChunks' = parts
     /\ tgQueue' = IF StrLen(message) <= maxMessageLength THEN <<message>>
                   ELSE [i \in 1..Len(parts) |-> PartMessage(i, Len(parts), parts[i])]
     /\ tgIdx' = 1
     /\ tgTry' = 1
     /\ tgPc' = "attempt"
     /\ UNCHANGED <<tgLog, sent>>

\* bot.api.sendMessage resolves
ApiSendOk ==
  /\ tgPc = "attempt"
  /\ sent' = Append(sent, [to |-> chatId, ctx |-> tgCtx, text |-> tgQueue[tgIdx]])
  /\ tgLog' = Append(tgLog, TgEvent("send", tgCtx, tgIdx, TRUE, 0))
  /\ tgPc' = IF tgIdx < Len(tgQueue) THEN "partPause" ELSE "returned"
  /\ UNCHANGED <<tgCtx, tgMessage, tgChunks, tgQueue, tgIdx, tgTry>>
  /\ UNCHANGED mainVars
  /\ UNCHANGED <<ppVars, stVars, lgVars, ovVars, ldVars, rdVars, cfVars>>

\* a slip: the retry is itself retried
ApiSendFail_retriesAgain ==
  /\ tgPc = "attempt"
  /\ tgLog' = Append(tgLog, TgEvent("send", tgCtx, tgIdx, FALSE, 0))
  /\ tgPc' = "retryWait"
  /\ UNCHANGED <<tgCtx, tgMessage, tgChunks, tgQueue, tgIdx, tgTry, sent>>
  /\ UNCHANGED mainVars
  /\ UNCHANGED <<ppVars, stVars, lgVars, ovVars, ldVars, rdVars, cfVars>>

\* bot.api.sendMessage rejects: the first failure leads to the retry, the
\* failure of the retry is thrown to the caller of sendMessage
ApiSendFail ==
  /\ tgPc = "attempt"
  /\ tgLog' = Append(tgLog, TgEvent("send", tgCtx, tgIdx, FALSE, 0))
  /\ tgPc' = IF tgTry = 1 THEN "retryWait" ELSE "thrown"
  /\ UNCHANGED <<tgCtx, tgMessage, tgChunks, tgQueue, tgIdx, tgTry, sent>>
  /\ UNCHANGED mainVars
  /\ UNCHANGED <<ppVars, stVars, lgVars, ovVars, ldVars, rdVars, cfVars>>

\* await this.sleep(this.retryDelay), then the second attempt
RetryWait ==
  /\ tgPc = "retryWait"
  /\ tgLog' = Append(tgLog, TgEvent("sleep", tgCtx, tgIdx, TRUE, retryDelay))
  /\ tgTry' = 2
  /\ tgPc' = "attempt"
  /\ UNCHANGED <<tgCtx, tgMessage, tgChunks, tgQueue, tgIdx, sent>>
  /\ UNCHANGED mainVars
  /\ UNCHANGED <<ppVars, stVars, lgVars, ovVars, ldVars, rdVars, cfVars>>

\* await this.sleep(1000) between two parts, then the next part
PartPauseDone ==
  /\ tgPc = "partPause"
  /\ tgLog' = Append(tgLog, TgEvent("sleep", tgCtx, tgIdx, TRUE, PartPause))
  /\ tgIdx' = tgIdx + 1
  /\ tgTry' = 1
  /\ tgPc' = "attempt"
  /\ UNCHANGED <<tgCtx, tgMessage, tgChunks, tgQueue, sent>>
  /\ UNCHANGED mainVars
  /\ UNCHANGED <<ppVars, stVars, lgVars, ovVars, ldVars, rdVars, cfVars>>

----------------------------------------------------------------------------
(* Decoded JSON values.  t is the kind of the value; s is the text of a    *)
(* string or number, k the keys of a map, l the items of a list or the     *)
(* values of a map (as texts).                                             *)

T(str) == <<Lit(str)>>

NULL == "null"

JAbsent    == [t |-> "absent", s |-> <<>>, k |-> <<>>, l |-> <<>>]
JNull      == [t |-> "null",   s |-> <<>>, k |-> <<>>, l |-> <<>>]
JStr(text) == [t |-> "str",    s |-> text, k |-> <<>>, l |-> <<>>]
JNum(text) == [t |-> "num",    s |-> text, k |-> <<>>, l |-> <<>>]
JList(items) == [t |-> "list", s |-> <<>>, k |-> <<>>, l |-> items]
JMap(keys, values) == [t |-> "map", s |-> <<>>, k |-> keys, l |-> values]

\* JavaScript typeof
typeof(v) ==
  CASE v.t \in {"null", "list", "map"} -> "object"
    [] v.t = "str" -> "string"
    [] v.t = "num" -> "number"
    [] OTHER -> "undefined"

\* Array.isArray
isArray(v) == v.t = "list"

NoAnalysis == [systemStatus |-> JAbsent, summary |-> JAbsent, criticalIssues |-> JAbsent,
               warnings |-> JAbsent, recommendations |-> JAbsent, metrics |-> JAbsent]

----------------------------------------------------------------------------
(* ClaudeClient.validateAnalysis and parseAnalysisResponse *)

required == <<"systemStatus", "summary", "criticalIssues", "warnings",
              "recommendations", "metrics">>

validStatuses == {"Excellent", "Good", "Satisfactory", "Bad", "Awful"}

Valid(a)   == [ok |-> TRUE,  analysis |-> a]
Invalid(a) == [ok |-> FALSE, analysis |-> a]

\* throws (ok = FALSE) or returns with the status coerced in place
validateAnalysis(a) ==
  IF \E i \in 1..Len(required) : a[required[i]].t = "absent" THEN Invalid(a)
  ELSE LET coerced ==
             IF \E st \in validStatuses : a.systemStatus = JStr(T(st))
             THEN a
             ELSE [a EXCEPT !.systemStatus = JStr(T("Satisfactory"))]
       IN IF ~isArray(coerced.criticalIssues) THEN Invalid(coerced)
          ELSE IF ~isArray(coerced.warnings) THEN Invalid(coerced)
          ELSE IF ~isArray(coerced.recommendations) THEN Invalid(coerced)
          ELSE IF typeof(coerced.metrics) # "object" THEN Invalid(coerced)
          ELSE Valid(coerced)

\* the fallback structure returned by the catch of parseAnalysisResponse
FallbackAnalysis ==
  [systemStatus    |-> JStr(T("Satisfactory")),
   summary         |-> JStr(T("Failed to parse AI response. Manual review required.")),
   criticalIssues  |-> JList(<<T("AI response parsing failed")>>),
   warnings        |-> JList(<<>>),
   recommendations |-> JList(<<T("Review raw logwatch output manually")>>),
   metrics         |-> JMap(<<>>, <<>>)]

(* The content of a response is [kind, obj]:                               *)
(*   "undefined"  the first content block has no text                      *)
(*   "nojson"     the text has no {...} in it (the match is null)          *)
(*   "badjson"    the text from the first { to the last } is not JSON      *)
(*   "json"       that text decodes to the object obj                      *)
Content(kind, obj) == [kind |-> kind, obj |-> obj]

\* a slip: the fallback is returned without its critical issue
parseAnalysisResponse_emptyFallback(content) ==
  IF content.kind = "json" /\ validateAnalysis(content.obj).ok
  THEN validateAnalysis(content.obj).analysis
  ELSE [FallbackAnalysis EXCEPT !.criticalIssues = JList(<<>>)]

\* every failure inside the try (no match, JSON.parse, validateAnalysis,
\* content.match on undefined) ends in the fallback
parseAnalysisResponse(content) ==
  IF content.kind = "json" /\ validateAnalysis(content.obj).ok
  THEN validateAnalysis(content.obj).analysis
  ELSE FallbackAnalysis

\* a slip: 1s, 2s, 4s as the comment of calculateBackoff says
calculateBackoff_fromOneSecond(n) == 2^(n - 1) * 1000

\* Math.pow(2, attempt) * 1000
calculateBackoff(n) == 2^n * 1000

----------------------------------------------------------------------------
(* TelegramClient.escapeMarkdown, getStatusInfo, formatMetricKey,          *)
(* formatAnalysisMessage                                                   *)

\* an emoji of two UTF-16 code units, and a symbol of one
Emoji(name)  == Blk(name, 2, 0)
Symbol(name) == Blk(name, 1, 0)

\* a backslash before every backslash and every special character: each
\* block grows by esc, and would grow by twice that when escaped again
escapeText(text) ==
  [i \in 1..Len(text) |->
     [c |-> text[i].c, n |-> text[i].n + text[i].esc, esc |-> 2 * text[i].esc]]

\* text.replace exists on strings only; null, undefined and '' give ''
escapeThrows(v) == v.t \in {"num", "list", "map"}

escapeMarkdown(v) == IF v.t = "str" THEN escapeText(v.s) ELSE <<>>

getStatusInfo(status) ==
  CASE status = JStr(T("Excellent"))    -> [emoji |-> Symbol("check"),  text |-> T("Excellent")]
    [] status = JStr(T("Good"))         -> [emoji |-> Emoji("green"),   text |-> T("Good")]
    [] status = JStr(T("Satisfactory")) -> [emoji |-> Emoji("yellow"),  text |-> T("Satisfactory")]
    [] status = JStr(T("Bad"))          -> [emoji |-> Emoji("orange"),  text |-> T("Bad")]
    [] status = JStr(T("Awful"))        -> [emoji |-> Emoji("red"),     text |-> T("Awful")]
    [] OTHER -> [emoji |-> Symbol("question"),
                 text |-> IF status.t = "str" /\ status.s # <<>> THEN status.s ELSE T("Unknown")]

\* camelCase to Title Case, for the keys that occur
formatMetricKey(key) ==
  CASE key = "failedLogins" -> "Failed Logins"
    [] key = "errorCount"   -> "Error Count"
    [] key = "diskUsage"    -> "Disk Usage"
    [] OTHER -> key

\* Object.entries(metrics): the keys of a map, the indices of an array
metricKeys(m) ==
  IF m.t = "map" THEN m.k
  ELSE IF m.t = "list" THEN [i \in 1..Len(m.l) |-> ToString(i - 1)]
  ELSE <<>>

Bullets(items) ==
  Flatten([i \in 1..Len(items) |->
             <<Symbol("bullet"), Lit(" ")>> \o escapeText(items[i]) \o <<NL>>])

\* the environment of a run: host name, date and time, time zone, and the
\* cost and duration of the execution statistics
EnvHost     == "web01"
EnvDateTime == "2025-01-13 05:00:01"
EnvTimezone == "UTC"
EnvCost     == "0.0123"
EnvDuration == "12.34"

\* main always passes execution statistics with a cost and a duration
formatAnalysisMessage(a) ==
  LET statusInfo == getStatusInfo(a.systemStatus)
      issues == a.criticalIssues.l
      warns  == a.warnings.l
      recs   == a.recommendations.l
      keys   == metricKeys(a.metrics)
  IN    <<Emoji("mag"), Lit(" *Logwatch Analysis Report*"), NL>>
     \o <<Emoji("desktop"), Lit(" Host: " \o EnvHost), NL>>
     \o <<Emoji("calendar"), Lit(" Date: " \o EnvDateTime), NL>>
     \o <<Emoji("globe"), Lit(" Timezone: " \o EnvTimezone), NL>>
     \o <<statusInfo.emoji, Lit(" *Status:* ")>> \o statusInfo.text \o <<NL>>
     \o <<NL, Emoji("clipboard"), Lit(" *Execution Stats*"), NL>>
     \o <<Symbol("bullet"), Lit(" Critical Issues: " \o ToString(Len(issues))), NL>>
     \o <<Symbol("bullet"), Lit(" Warnings: " \o ToString(Len(warns))), NL>>
     \o <<Symbol("bullet"), Lit(" Recommendations: " \o ToString(Len(recs))), NL>>
     \o <<Symbol("bullet"), Lit(" Cost: $" \o EnvCost), NL>>
     \o <<Symbol("bullet"), Lit(" Duration: " \o EnvDuration \o "s"), NL>>
     \o <<NL>>
     \o <<Emoji("chart"), Lit(" *Summary*"), NL>>
     \o escapeMarkdown(a.summary) \o <<NL, NL>>
     \o (IF Len(issues) > 0
         THEN <<Emoji("warning"), Lit(" *Critical Issues* (" \o ToString(Len(issues)) \o ")"), NL>>
              \o Bullets(issues) \o <<NL>>
         ELSE <<>>)
     \o (IF Len(warns) > 0
         THEN <<Symbol("zap"), Lit(" *Warnings* (" \o ToString(Len(warns)) \o ")"), NL>>
              \o Bullets(warns) \o <<NL>>
         ELSE <<>>)
     \o (IF Len(recs) > 0
         THEN <<Emoji("bulb"), Lit(" *Recommendations*"), NL>> \o Bullets(recs) \o <<NL>>
         ELSE <<>>)
     \o (IF Len(keys) > 0
         THEN <<Emoji("graph"), Lit(" *Key Metrics*"), NL>>
              \o Flatten([i \in 1..Len(keys) |->
                   <<Symbol("bullet"), Lit(" " \o formatMetricKey(keys[i]) \o ": ")>>
                   \o escapeText(a.metrics.l[i]) \o <<NL>>])
         ELSE <<>>)

\* `<cross> *Logwatch Analyzer Error*\n\n${this.escapeMarkdown(errorMessage)}`
formatErrorMessage(errorMessage) ==
  <<Symbol("cross"), Lit(" *Logwatch Analyzer Error*"), NL, NL>> \o escapeText(errorMessage)

----------------------------------------------------------------------------
(* Error messages *)

Txt(str, special) == Blk(str, Len(str), special)

OutputPath == "/tmp/logwatch-output.txt"

NoError == <<>>

ErrCtor       == T("constructor failed")
ErrPermission == <<Txt("Permission denied: " \o OutputPath, 1)>>
ErrRead       == T("EIO: i/o error, read")
ErrEmptyLog   == T("Log content is empty")
ErrTimeout    == T("Request timed out.")
ErrNoText     == <<Txt("Cannot read properties of undefined (reading 'text')", 2)>>
ErrReplace    == T("text.replace is not a function")
ErrSend       == T("Network request for 'sendMessage' failed!")

\* the error main throws when readLogwatchOutput returned null
ErrNotFound ==
  <<Txt("Logwatch output file not found or empty: " \o OutputPath, 1), NL,
    Lit("Please ensure the logwatch cron job is configured correctly."), NL,
    Txt("See docs/CRON_SETUP.md for installation instructions, or run:", 1), NL,
    Txt("  sudo scripts/generate-logwatch.sh", 2)>>

\* `Claude API failed after ${this.maxRetries} attempts: ${lastError.message}`
ErrRetriesExhausted(lastError) ==
  <<Lit("Claude API failed after " \o ToString(maxRetries) \o " attempts: ")>> \o lastError

----------------------------------------------------------------------------
(* The responses the LLM provider gives in the model *)

Decoded(status, summary, issues, warns, recs, metrics) ==
  Content("json", [systemStatus |-> status, summary |-> summary,
                   criticalIssues |-> issues, warnings |-> warns,
                   recommendations |-> recs, metrics |-> metrics])

ShortSummary == JStr(<<Txt("All services are up - nothing to report.", 1)>>)

\* two lines of 2500 characters: a report of two parts
TwoPartSummary == JStr(<<Blk("para1", 2500, 3), NL, Blk("para2", 2500, 0)>>)

\* one line of 5000 characters
OneLineSummary == JStr(<<Blk("longline", 5000, 0)>>)

SomeMetrics == JMap(<<"failedLogins", "errorCount", "diskUsage">>,
                    <<T("12"), T("3"), T("81%")>>)

Healthy(status) ==
  Decoded(JStr(T(status)), ShortSummary, JList(<<>>), JList(<<>>), JList(<<>>), SomeMetrics)

Responses ==
  { Healthy(st) : st \in validStatuses }
  \cup
  { Healthy("Mostly Fine"),
    Decoded(JStr(T("Bad")), ShortSummary, JList(<<T("root login from 203.0.113.7")>>),
            JList(<<T("disk at 91%")>>), JList(<<T("rotate keys")>>), SomeMetrics),
    Decoded(JStr(T("Awful")), TwoPartSummary, JList(<<>>), JList(<<>>), JList(<<>>),
            JMap(<<>>, <<>>)),
    Decoded(JStr(T("Bad")), OneLineSummary, JList(<<>>), JList(<<>>), JList(<<>>),
            JMap(<<>>, <<>>)),
    Decoded(JStr(T("Good")), JNum(T("42")), JList(<<>>), JList(<<>>), JList(<<>>),
            JMap(<<>>, <<>>)),
    Decoded(JStr(T("Good")), ShortSummary, JList(<<>>), JList(<<>>), JList(<<>>),
            JList(<<T("12"), T("3")>>)),
    Decoded(JStr(T("Good")), ShortSummary, JStr(T("none")), JList(<<>>), JList(<<>>),
            SomeMetrics),
    Decoded(JStr(T("Good")), ShortSummary, JList(<<>>), JList(<<>>), JList(<<>>), JAbsent),
    Content("nojson", NoAnalysis),
    Content("badjson", NoAnalysis),
    Content("undefined", NoAnalysis) }

----------------------------------------------------------------------------
(* The text of a digest, for the preprocessor (src/utils/preprocessor.js). *)
(* A digest text is a sequence of tokens: the newline DNl, a run of n      *)
(* blanks DSp(n), or a phrase: n characters making w words separated by    *)
(* single blanks, with no blank at either end.  A phrase carries what the  *)
(* regular expressions of the preprocessor see in it: hdr is the section   *)
(* its dashes announce ("" when it does not start with a dash, "dash"      *)
(* when it starts with fewer than three); pat and ip are the first         *)
(* DEDUP_PATTERNS entry that matches it and the address it captures.       *)

DNl == [k |-> "nl", c |-> "\n", n |-> 1, w |-> 0, hdr |-> "", pat |-> "", ip |-> ""]

DSp(len) == [k |-> "sp", c |-> " ", n |-> len, w |-> 0, hdr |-> "", pat |-> "", ip |-> ""]

Phrase(text, len, words, header, pattern, address) ==
  [k |-> "wd", c |-> text, n |-> len, w |-> words, hdr |-> header, pat |-> pattern,
   ip |-> address]

\* a literal phrase of the given number of words
Words(text, words) == Phrase(text, Len(text), words, "", "", "")

\* the sum of a sequence of numbers, by halves, each half taken once
RECURSIVE Sum(_)
Sum(nums) ==
  IF Len(nums) = 0 THEN 0
  ELSE IF Len(nums) = 1 THEN nums[1]
  ELSE CHOOSE total \in
         { Sum(left) + Sum(right) :
             left \in {SubSeq(nums, 1, Len(nums) \div 2)},
             right \in {SubSeq(nums, Len(nums) \div 2 + 1, Len(nums))} } : TRUE

Max(a, b) == IF a >= b THEN a ELSE b

\* the number of items of x.split(a run of white space): the words, one
\* empty item when the text starts with white space and one when it ends
\* with white space; two phrases with nothing between them share a word
splitWhitespaceCount(text) ==
  Sum([i \in 1..Len(text) |-> text[i].w])
  - Cardinality({ i \in 1..(Len(text) - 1) : text[i].k = "wd" /\ text[i + 1].k = "wd" })
  + (IF text[1].k # "wd" THEN 1 ELSE 0)
  + (IF text[Len(text)].k # "wd" THEN 1 ELSE 0)

\* text.length
textLength(text) == Sum([i \in 1..Len(text) |-> text[i].n])

\* LogwatchPreprocessor.estimateTokens: Math.ceil(words / 0.75) is the
\* ceiling of 4 * words / 3
estimateTokens(text) ==
  IF text = <<>> THEN 0
  ELSE Max((4 * splitWhitespaceCount(text) + 2) \div 3, (textLength(text) + 3) \div 4)

\* content.split('\n')
splitLines(text) ==
  CHOOSE lines \in
    { Between(text, cuts) :
        cuts \in {{i \in 1..Len(text) : text[i].k = "nl"} \cup {0, Len(text) + 1}} } : TRUE

\* lines.join(sep), sep being one or two newlines
join(lines, sep) ==
  Flatten([i \in 1..Len(lines) |-> IF i < Len(lines) THEN lines[i] \o sep ELSE lines[i]])

\* line.trim() of a line (a text without newline)
trim(line) ==
  LET solid == { i \in 1..Len(line) : line[i].k = "wd" }
  IN IF solid = {} THEN <<>>
     ELSE SubSeq(line, CHOOSE i \in solid : \A j \in solid : i <= j,
                       CHOOSE i \in solid : \A j \in solid : i >= j)

\* PRIORITY
PRIORITY == [HIGH |-> 3, MEDIUM |-> 2, LOW |-> 1]

\* SECTION_PATTERNS, by the section a header phrase announces: one entry of
\* each priority is kept
SECTION_PATTERNS == [ssh |-> PRIORITY.HIGH, disk |-> PRIORITY.MEDIUM, cron |-> PRIORITY.LOW]

\* DEDUP_PATTERNS: the names of the noise patterns
DEDUP_PATTERNS == {"failedPassword", "invalidUser", "connectionClosed", "acceptedPassword",
                   "refusedConnect"}

NoSection == [name |-> "", priority |-> 0]

\* LogwatchPreprocessor.identifySection: the named patterns are anchored at
\* the start of the line, the generic one at the start of the trimmed line
identifySection(line) ==
  IF line # <<>> /\ line[1].k = "wd" /\ line[1].hdr \in DOMAIN SECTION_PATTERNS
  THEN [name |-> line[1].hdr, priority |-> SECTION_PATTERNS[line[1].hdr]]
  ELSE IF trim(line) # <<>> /\ trim(line)[1].hdr \in (DOMAIN SECTION_PATTERNS \cup {"unknown"})
  THEN [name |-> "unknown", priority |-> PRIORITY.LOW]
  ELSE NoSection

NewSection(name, priority, header, line) ==
  [name |-> name, priority |-> priority, header |-> header, content |-> line \o <<DNl>>,
   lines |-> <<line>>]

\* the loop of parseSections: current is the section being filled (hasCurrent
\* when there is one); the preamble is put in the list when it is created
\* and stays the current section, so that the next header puts it in again
RECURSIVE parseLoop(_, _, _, _, _)
parseLoop(lines, sections, current, hasCurrent, inList) ==
  IF lines = <<>>
  THEN IF hasCurrent /\ ~inList THEN Append(sections, current) ELSE sections
  ELSE LET line == Head(lines)
           sectionInfo == identifySection(line)
       IN IF sectionInfo # NoSection
          THEN parseLoop(Tail(lines),
                         IF hasCurrent THEN Append(sections, current) ELSE sections,
                         NewSection(sectionInfo.name, sectionInfo.priority, line, line),
                         TRUE, FALSE)
          ELSE IF hasCurrent
          THEN LET filled == [current EXCEPT !.content = @ \o line \o <<DNl>>,
                                             !.lines = Append(@, line)]
               IN parseLoop(Tail(lines),
                            IF inList THEN [sections EXCEPT ![1] = filled] ELSE sections,
                            filled, TRUE, inList)
          ELSE LET preamble == NewSection("preamble", PRIORITY.MEDIUM, <<>>, line)
               IN parseLoop(Tail(lines), <<preamble>>, preamble, TRUE, TRUE)

\* LogwatchPreprocessor.parseSections
parseSections(content) ==
  parseLoop(splitLines(content), <<>>, NoSection, FALSE, FALSE)

\* the phrases of a line in which a noise pattern matches
Noise(line) == { i \in 1..Len(line) : line[i].pat \in DEDUP_PATTERNS }

\* a line that deduplicateSection keeps as it is: blank, or starting with a dash
isKept(line) == trim(line) = <<>> \/ (line[1].k = "wd" /\ line[1].hdr # "")

\* groupedMessages.get(key), as the place of the key in the insertion order
groupOf(grouped, pattern, address) ==
  { g \in 1..Len(grouped) : grouped[g].pat = pattern /\ grouped[g].ip = address }

\* `${line} (repeated ${totalCount}x)`
repeatedLine(line, totalCount) ==
  line \o <<DSp(1), Words("(repeated " \o ToString(totalCount) \o "x)", 2)>>

\* `   ${data.count} similar ${patternName} events from ${identifier}`
summaryLine(count, patternName, identifier) ==
  <<DSp(3),
    Words(ToString(count) \o " similar " \o patternName \o " events from " \o identifier, 6)>>

\* the first loop of deduplicateSection, from index i (counted from 1)
RECURSIVE dedupLoop(_, _, _, _, _)
dedupLoop(lines, i, newLines, grouped, deduplicated) ==
  IF i > Len(lines)
  THEN [newLines |-> newLines, grouped |-> grouped, deduplicated |-> deduplicated]
  ELSE LET line == lines[i]
       IN IF isKept(line)
          THEN dedupLoop(lines, i + 1, Append(newLines, line), grouped, deduplicated)
          ELSE IF Noise(line) # {}
          THEN LET match == line[CHOOSE m \in Noise(line) : \A o \in Noise(line) : m <= o]
                   known == groupOf(grouped, match.pat, match.ip)
                   entered ==
                     IF known = {}
                     THEN Append(grouped, [pat |-> match.pat, ip |-> match.ip, count |-> 1,
                                           example |-> line])
                     ELSE [g \in 1..Len(grouped) |->
                             IF g \in known THEN [grouped[g] EXCEPT !.count = @ + 1]
                             ELSE grouped[g]]
               IN dedupLoop(lines, i + 1, newLines, entered, deduplicated)
          ELSE LET nextLines == SubSeq(lines, i + 1, IF i + 5 < Len(lines) THEN i + 5
                                                     ELSE Len(lines))
                   duplicateCount ==
                     Cardinality({ l \in 1..Len(nextLines) : trim(nextLines[l]) = trim(line) })
               IN IF duplicateCount >= 2
                  THEN dedupLoop(lines, i + duplicateCount + 1,
                                 Append(newLines, repeatedLine(line, duplicateCount + 1)),
                                 grouped, deduplicated + duplicateCount)
                  ELSE dedupLoop(lines, i + 1, Append(newLines, line), grouped, deduplicated)

\* the second loop of deduplicateSection: one line for each group
groupLines(grouped) ==
  [g \in 1..Len(grouped) |->
     IF grouped[g].count > 1
     THEN summaryLine(grouped[g].count, grouped[g].pat, grouped[g].ip)
     ELSE grouped[g].example]

\* LogwatchPreprocessor.deduplicateSection: the section it returns, and what
\* it adds to stats.linesDeduplicated
deduplicateSection(section) ==
  IF Len(section.lines) <= 3
  THEN [section |-> section, deduplicated |-> 0]
  ELSE LET first == dedupLoop(section.lines, 1, <<>>, <<>>, 0)
           newLines == first.newLines \o groupLines(first.grouped)
       IN [section |-> [section EXCEPT !.lines = newLines, !.content = join(newLines, <<DNl>>)],
           deduplicated |->
             first.deduplicated
             + Sum([g \in 1..Len(first.grouped) |->
                      IF first.grouped[g].count > 1 THEN first.grouped[g].count - 1 ELSE 0])]

\* the preprocessing ceiling: config.preprocessing.maxTokens
maxTokens == 150000

\* the lines a LOW section keeps: Math.max(5, Math.ceil(lines.length * 0.2))
LowTarget(count) == Max(5, (count + 4) \div 5)

\* the lines a MEDIUM section keeps: Math.max(10, Math.ceil(lines.length * 0.5))
MediumTarget(count) == Max(10, (count + 1) \div 2)

\* `   [Section compressed: showing ${targetLines} of ${lines.length} lines]`
markerLine(verb, targetLines, count) ==
  <<DSp(3),
    Words("[Section " \o verb \o ": showing " \o ToString(targetLines) \o " of "
          \o ToString(count) \o " lines]", 7)>>

\* slice(0, targetLines)
slice(lines, targetLines) ==
  SubSeq(lines, 1, IF targetLines < Len(lines) THEN targetLines ELSE Len(lines))

\* what compressSections makes of one section: its content, and whether it
\* counts as compressed
compressOne(section) ==
  LET count == Len(section.lines)
  IN IF section.priority = PRIORITY.LOW
     THEN [content |-> join(<<section.header, markerLine("compressed", LowTarget(count), count)>>
                            \o slice(section.lines, LowTarget(count)), <<DNl>>),
           compressed |-> 1, removed |-> count - LowTarget(count)]
     ELSE IF section.priority = PRIORITY.MEDIUM /\ count > MediumTarget(count)
     THEN [content |-> join(<<section.header, markerLine("condensed", MediumTarget(count), count)>>
                            \o slice(section.lines, MediumTarget(count)), <<DNl>>),
           compressed |-> 1, removed |-> count - MediumTarget(count)]
     ELSE [content |-> section.content, compressed |-> 0, removed |-> 0]

\* processedSections.find(p => p.name === original.name && p.header ===
\* original.header): processedSections is in the order of the stable sort by
\* decreasing priority, and sections of one name have one priority, so the
\* first match is the first section of that name and header in the list
findProcessed(sections, original) ==
  CHOOSE p \in 1..Len(sections) :
    /\ sections[p].name = original.name /\ sections[p].header = original.header
    /\ \A q \in 1..(p - 1) :
         ~(sections[q].name = original.name /\ sections[q].header = original.header)

\* LogwatchPreprocessor.compressSections: the text it returns and what it
\* adds to stats.sectionsCompressed and stats.linesRemoved
compressSections(sections) ==
  [text |-> join([s \in 1..Len(sections) |->
                    compressOne(sections[findProcessed(sections, sections[s])]).content],
                 <<DNl, DNl>>),
   compressed |-> Sum([s \in 1..Len(sections) |-> compressOne(sections[s]).compressed]),
   removed |-> Sum([s \in 1..Len(sections) |-> compressOne(sections[s]).removed])]

\* this.stats after the constructor
NewStats ==
  [originalSize |-> 0, processedSize |-> 0, originalTokens |-> 0, processedTokens |-> 0,
   linesRemoved |-> 0, linesDeduplicated |-> 0, sectionsCompressed |-> 0]

\* content.trim().length === 0, or no content
isBlank(content) == \A i \in 1..Len(content) : content[i].k # "wd"

\* steps 1 to 4 of preprocess, for a content that exceeds the ceiling
reduceContent(content, measured) ==
  LET sections == parseSections(content)
      deduped == [s \in 1..Len(sections) |-> deduplicateSection(sections[s])]
      dedupedSections == [s \in 1..Len(sections) |-> deduped[s].section]
      counted ==
        [measured EXCEPT !.linesDeduplicated =
           @ + Sum([s \in 1..Len(sections) |-> deduped[s].deduplicated])]
      afterDedup ==
        join([s \in 1..Len(sections) |-> dedupedSections[s].content], <<DNl, DNl>>)
      afterDedupTokens == estimateTokens(afterDedup)
      compressed == compressSections(dedupedSections)
  IN IF afterDedupTokens <= maxTokens
     THEN [out |-> afterDedup,
           stats |-> [counted EXCEPT !.processedSize = textLength(afterDedup),
                                     !.processedTokens = afterDedupTokens]]
     ELSE [out |-> compressed.text,
           stats |-> [counted EXCEPT
                        !.processedSize = textLength(compressed.text),
                        !.processedTokens = estimateTokens(compressed.text),
                        !.sectionsCompressed = @ + compressed.compressed,
                        !.linesRemoved = @ + compressed.removed]]

\* preprocess without the test of the ceiling: every content goes through
\* the four steps
preprocess_reducesAlways(content, stats) ==
  IF isBlank(content) THEN [out |-> content, stats |-> stats]
  ELSE reduceContent(content, [stats EXCEPT !.originalSize = textLength(content),
                                            !.originalTokens = estimateTokens(content)])

\* LogwatchPreprocessor.preprocess: what it returns and the stats it leaves
preprocess(content, stats) ==
  IF isBlank(content) THEN [out |-> content, stats |-> stats]
  ELSE LET originalTokens == estimateTokens(content)
           measured == [stats EXCEPT !.originalSize = textLength(content),
                                     !.originalTokens = originalTokens]
       IN IF originalTokens <= maxTokens
          THEN [out |-> content,
                stats |-> [measured EXCEPT !.processedSize = measured.originalSize,
                                           !.processedTokens = originalTokens]]
          ELSE reduceContent(content, measured)

\* no call has been made yet
NoCall == [op |-> "none"]

\* the preprocessor before it is given anything
PpIdle ==
  /\ ppPc = "idle"
  /\ ppContent = <<>>
  /\ ppOp = ""
  /\ ppOut = <<>>
  /\ ppStats = NewStats

----------------------------------------------------------------------------
(* The storage: class Storage of analyzer.js, over the summaries table.    *)
(* Times are in seconds.  cutoffDate.setDate(cutoffDate.getDate() - days)  *)
(* moves the local date back by days calendar days; the model takes every  *)
(* day as Day seconds.                                                     *)

Day == 86400

\* Date.now() / 1000 during the calls: a day of 2026
Now == 20000 * Day

\* what an operation returns: null or undefined, or a value
Absent == [absent |-> TRUE, value |-> 0]

Value(v) == [absent |-> FALSE, value |-> v]

\* a row of the summaries table
Row(id, timestamp, summary, critical, warnings) ==
  [id |-> id, date |-> "day " \o ToString(timestamp \div Day), timestamp |-> timestamp,
   summary |-> summary, critical_count |-> critical, warning_count |-> warnings]

\* Math.floor(cutoffDate.getTime() / 1000)
cutoffTimestamp(days) == Now - days * Day

\* x.length || 0 of a member of the analysis
lengthOr0(value) ==
  IF value.t = "list" THEN Len(value.l)
  ELSE IF value.t = "str" THEN StrLen(value.s)
  ELSE 0

\* analysis.summary || '' as the text the column holds
summaryOr(value) == IF value.t \in {"str", "num"} THEN value.s ELSE <<>>

\* the largest id the rows of the model start with
MaxStoredId == 7

\* last_insert_rowid() after the INSERT: the id column is AUTOINCREMENT
insertRowid(rows) ==
  1 + Max(MaxStoredId, CHOOSE m \in {0} \cup { r.id : r \in rows } :
                         \A r \in rows : r.id <= m)

\* the guard at the head of every operation: !this.enabled || !this.db
disabled(enabled, open) == ~enabled \/ ~open

\* Storage.saveSummary.  fault: "none", "insert" (the INSERT throws) or
\* "rowid" (the SELECT after it throws).  saves is TRUE when saveToFile is
\* reached
saveSummary(enabled, open, rows, value, fault) ==
  IF disabled(enabled, open)
  THEN [rows |-> rows, ret |-> Absent, failed |-> FALSE, saves |-> FALSE]
  ELSE IF fault = "insert"
  THEN [rows |-> rows, ret |-> Absent, failed |-> TRUE, saves |-> FALSE]
  ELSE LET inserted ==
             rows \cup {Row(insertRowid(rows), Now, summaryOr(value.summary),
                            lengthOr0(value.criticalIssues), lengthOr0(value.warnings))}
       IN IF fault = "rowid"
          THEN [rows |-> inserted, ret |-> Absent, failed |-> TRUE, saves |-> FALSE]
          ELSE [rows |-> inserted, ret |-> Value(insertRowid(rows)), failed |-> FALSE,
                saves |-> TRUE]

\* DELETE FROM summaries WHERE timestamp <= ?
expired_atCutoff(rows, days) == { r \in rows : r.timestamp <= cutoffTimestamp(days) }

\* DELETE FROM summaries WHERE timestamp < ?: the rows it deletes
expired(rows, days) == { r \in rows : r.timestamp < cutoffTimestamp(days) }

\* Storage.cleanup.  fault: "none", "delete" (the first COUNT or the DELETE
\* throws) or "count" (the COUNT after the DELETE throws)
cleanup(enabled, open, rows, days, fault) ==
  IF disabled(enabled, open)
  THEN [rows |-> rows, ret |-> Value(0), failed |-> FALSE, saves |-> FALSE]
  ELSE IF fault = "delete"
  THEN [rows |-> rows, ret |-> Value(0), failed |-> TRUE, saves |-> FALSE]
  ELSE LET kept == rows \ expired(rows, days)
           deletedCount == Cardinality(rows) - Cardinality(kept)
       IN IF fault = "count"
          THEN [rows |-> kept, ret |-> Value(0), failed |-> TRUE, saves |-> FALSE]
          ELSE [rows |-> kept, ret |-> Value(deletedCount), failed |-> FALSE,
                saves |-> deletedCount > 0]

\* the orders in which ORDER BY timestamp DESC can return the rows: rows of
\* one timestamp come in any order
RECURSIVE Descending(_)
Descending(rows) ==
  IF rows = {} THEN {<<>>}
  ELSE UNION { { <<r>> \o rest : rest \in Descending(rows \ {r}) } :
               r \in { x \in rows : \A y \in rows : x.timestamp >= y.timestamp } }

\* SELECT * FROM summaries WHERE timestamp > ?
inWindow_afterCutoff(rows, days) == { r \in rows : r.timestamp > cutoffTimestamp(days) }

\* SELECT * FROM summaries WHERE timestamp >= ?: the rows it selects
inWindow(rows, days) == { r \in rows : r.timestamp >= cutoffTimestamp(days) }

\* Storage.getRecentSummaries: the lists it can return.  fault: "none" or
\* "query" (the SELECT throws)
getRecentSummaries(enabled, open, rows, days, fault) ==
  IF disabled(enabled, open) \/ fault = "query" THEN {<<>>}
  ELSE Descending(inWindow(rows, days))

\* `Date: ${s.date}\nSummary: ${s.summary}\nCritical Issues: ${...}, Warnings: ${...}`
contextEntry(s) ==
  T("Date: " \o s.date) \o <<NL>> \o T("Summary: ") \o s.summary \o <<NL>>
  \o T("Critical Issues: " \o ToString(s.critical_count) \o ", Warnings: "
       \o ToString(s.warning_count))

\* summaries.map(...).join('\n\n')
RECURSIVE contextOf(_)
contextOf(summaries) ==
  IF Len(summaries) = 1 THEN contextEntry(summaries[1])
  ELSE contextEntry(summaries[1]) \o <<NL, NL>> \o contextOf(Tail(summaries))

\* Storage.getHistoricalContext, from the list getRecentSummaries returned
getHistoricalContext(days, summaries) ==
  IF Len(summaries) = 0 THEN Absent
  ELSE Value(T("Previous " \o ToString(days) \o " days analysis:") \o <<NL, NL>>
             \o contextOf(summaries))

\* Storage.getTrends, from the list getRecentSummaries(30) returned: the
\* number of rows, the totals the averages are taken from, and whether the
\* average of critical issues of the first 7 rows exceeds that of the next 7
getTrends(summaries) ==
  IF Len(summaries) = 0 THEN Absent
  ELSE LET recent == SubSeq(summaries, 1, IF Len(summaries) < 7 THEN Len(summaries) ELSE 7)
           previous == SubSeq(summaries, 8, IF Len(summaries) < 14 THEN Len(summaries) ELSE 14)
           critical(list) == Sum([i \in 1..Len(list) |-> list[i].critical_count])
       IN Value([totalDays |-> Len(summaries),
                 totalCritical |-> critical(summaries),
                 totalWarnings |-> Sum([i \in 1..Len(summaries) |-> summaries[i].warning_count]),
                 isIncreasing |->
                   IF Len(previous) = 0 THEN critical(recent) > 0
                   ELSE critical(recent) * Len(previous) > critical(previous) * Len(recent)])

\* Storage.getStats.  fault: "none" or "query"
getStats(enabled, open, rows, fault) ==
  IF disabled(enabled, open) \/ fault = "query" THEN Absent
  ELSE Value([totalEntries |-> Cardinality(rows),
              oldest |-> { r.date : r \in { x \in rows : \A y \in rows : x.timestamp <= y.timestamp } },
              newest |-> { r.date : r \in { x \in rows : \A y \in rows : x.timestamp >= y.timestamp } }])


\* cleanup(days = 90)
KeepDays == 90

\* getRecentSummaries(days = 7), getHistoricalContext(days = 7)
ContextDays == 7

\* the window getTrends asks for
TrendDays == 30

\* the values of the days argument
DaysArgs == {ContextDays, KeepDays}

\* the rows a database file can start with: around 90 days and around 7
\* days before now, one second apart at the limits
StoredRows ==
  { Row(1, Now - 91 * Day, T("Two disks nearly full."), 2, 1),
    Row(2, Now - KeepDays * Day - 1, T("Brute force attempts on ssh."), 1, 3),
    Row(3, Now - KeepDays * Day, T("All quiet."), 0, 0),
    Row(4, Now - 89 * Day, T("Mail queue growing."), 0, 2),
    Row(5, Now - ContextDays * Day - 1, T("Kernel upgraded."), 0, 1),
    Row(6, Now - ContextDays * Day, T("Certificate expires soon."), 1, 0),
    Row(MaxStoredId, Now - 6 * Day, T("All quiet."), 0, 0) }

\* the record of a call: the operation, its days argument (0 when it has
\* none), the state it was called in, whether a statement threw, and what
\* it returned
Call(op, days, failed, ret) ==
  [op |-> op, days |-> days, enabled |-> storageEnabled, open |-> dbOpen, before |-> dbRows,
   file |-> dbFile, failed |-> failed, ret |-> ret]

\* saveToFile(): a failure of the write is caught and logged
saveToFile(rows) == \E written \in BOOLEAN : dbFile' = IF written THEN rows ELSE dbFile

\* the storage before initialize
StIdle ==
  /\ dbOpen = FALSE
  /\ dbRows = {}
  /\ dbFile = {}
  /\ stCall = NoCall
  /\ stErrors = {}
  /\ dbFaults = {}

----------------------------------------------------------------------------
(* The Logger: levels, write and rotateIfNeeded.  A log file is the        *)
(* sequence of the numbers of the lines appended to it, with its size in   *)
(* bytes; lgFiles[0] is the active file and lgFiles[k] the file with       *)
(* suffix .k.                                                              *)

\* this.maxFileSize: 10 MB
maxFileSize == 10 * 1024 * 1024

\* this.maxFiles
maxFiles == 5

\* this.levels
levels == [debug |-> 0, info |-> 1, warn |-> 2, error |-> 3]

\* this.currentLevel = this.levels[logLevel] || this.levels.info: || takes
\* its right operand when the left one is undefined or 0
currentLevel(logLevel) ==
  IF logLevel \in DOMAIN levels /\ levels[logLevel] # 0
  THEN levels[logLevel]
  ELSE levels.info

\* a path with no file
NoFile == [exists |-> FALSE, lines |-> <<>>, size |-> 0]

\* the paths logPath, logPath.1 .. logPath.5
Suffixes == 0 .. maxFiles

NoFiles == [k \in Suffixes |-> NoFile]

\* fs.appendFileSync(path, line): creates the file when there is none
appendFile(files, k, line, bytes) ==
  [files EXCEPT ![k] = [exists |-> TRUE,
                        lines |-> Append(files[k].lines, line),
                        size |-> files[k].size + bytes]]

\* fs.unlinkSync(path)
unlink(files, k) == [files EXCEPT ![k] = NoFile]

\* fs.renameSync(oldPath, newPath): replaces newPath
rename(files, from, to) == [files EXCEPT ![to] = files[from], ![from] = NoFile]

\* no file operation throws
NoLogFault == [kind |-> "none", suffix |-> 0]

\* fs.appendFileSync throws
AppendFault == [kind |-> "append", suffix |-> 0]

\* the unlink or rename of the path with suffix k throws
MoveFault(k) == [kind |-> "move", suffix |-> k]

\* the file operation on the path with suffix k throws
Throws(fault, k) == fault = MoveFault(k)

\* the for loop of rotateIfNeeded, from suffix i down to 1; a throw ends it
RECURSIVE rotateLoop(_, _, _)
rotateLoop(files, i, fault) ==
  IF i <= 0
  THEN [files |-> files, failed |-> FALSE]
  ELSE IF ~files[i].exists
       THEN rotateLoop(files, i - 1, fault)
       ELSE IF Throws(fault, i)
            THEN [files |-> files, failed |-> TRUE]
            ELSE IF i = maxFiles - 1
                 THEN rotateLoop(unlink(files, i), i - 1, fault)
                 ELSE rotateLoop(rename(files, i, i + 1), i - 1, fault)

\* stats.size < this.maxFileSize returns without rotating: the file is at
\* its limit only above the limit
needsRotation_over(file) == file.exists /\ file.size > maxFileSize

\* the two early returns of rotateIfNeeded
needsRotation(file) == file.exists /\ file.size >= maxFileSize

\* rotateIfNeeded(): errors are caught and reported on the console
rotateIfNeeded(files, fault) ==
  IF ~needsRotation(files[0])
  THEN [files |-> files, rotated |-> FALSE, failed |-> FALSE]
  ELSE LET shifted == rotateLoop(files, maxFiles - 1, fault)
       IN  IF shifted.failed \/ Throws(fault, 0)
           THEN [files |-> shifted.files, rotated |-> FALSE, failed |-> TRUE]
           ELSE [files |-> rename(shifted.files, 0, 1), rotated |-> TRUE, failed |-> FALSE]

\* write(level, message): the files after the call, for the line numbered
\* line of the given length
write(configured, files, level, line, bytes, fault) ==
  IF levels[level] < currentLevel(configured)
  THEN [files |-> files, passed |-> FALSE, rotated |-> FALSE,
        rotateFailed |-> FALSE, appendFailed |-> FALSE]
  ELSE LET rotation == rotateIfNeeded(files, fault)
       IN  [files |-> IF fault = AppendFault
                      THEN rotation.files
                      ELSE appendFile(rotation.files, 0, line, bytes),
            passed |-> TRUE,
            rotated |-> rotation.rotated,
            rotateFailed |-> rotation.failed,
            appendFailed |-> (fault = AppendFault)]

\* the logger before it is constructed
LgIdle ==
  /\ lgLevel = "info"
  /\ lgFiles = NoFiles
  /\ lgNext = 1
  /\ lgCall = NoCall
  /\ lgFault = NoLogFault

\* the two runs of the overlap
Runs == {"A", "B"}

\* the overlap of two runs when it is not under study
OvIdle ==
  /\ ovPc = [run \in Runs |-> "start"]
  /\ ovRows = [run \in Runs |-> {}]

\* the loading of the modules when it is not under study
LdIdle ==
  /\ ldPc = 0
  /\ ldConfigured = "info"
  /\ loggerInstance = FALSE

\* the reader when it is not under study
RdIdle ==
  /\ rdPc = "idle"
  /\ rdFile = NoCall
  /\ rdOut = NoCall

\* the configuration module when it is not under study
CfIdle ==
  /\ cfPc = "idle"
  /\ cfEnv = NoCall
  /\ cfOut = NoCall

----------------------------------------------------------------------------
(* main() of analyzer.js, with analyzeLogwatch of the Claude client and    *)
(* readLogwatchOutput of the reader                                        *)

LlmEvent(kind, n, ok, msg, ms) == [e |-> kind, attempt |-> n, ok |-> ok, msg |-> msg, ms |-> ms]

FileStates == {"absent", "unreadable", "empty", "blank", "digest", "oversize", "ioerror"}

\* nothing of the run has happened
MainIdle ==
  /\ pc = "idle"
  /\ configValid = TRUE
  /\ ctorFailure = "none"
  /\ alertsChannelId = NULL
  /\ storageEnabled = FALSE
  /\ fileState = "digest"
  /\ logContent = NULL
  /\ attempt = 0
  /\ llmLog = <<>>
  /\ llmContent = Content("undefined", NoAnalysis)
  /\ analysis = NoAnalysis
  /\ saved = FALSE
  /\ runError = NoError
  /\ errLog = <<>>
  /\ exits = <<>>

\* the statement of the kind that runs now throws, or does not
Fault(kind) == IF kind \in dbFaults THEN kind ELSE "none"

\* saveToFile() during main
WriteFile(rows) == dbFile' = IF "write" \in dbFaults THEN dbFile ELSE rows

Init ==
  /\ pc = "load"
  /\ configValid \in BOOLEAN
  /\ ctorFailure \in {"none", "claude", "telegram"}
  /\ alertsChannelId \in {NULL, "-1009876543210"}
  /\ storageEnabled \in BOOLEAN
  /\ fileState \in FileStates
  /\ logContent = NULL
  /\ attempt = 0
  /\ llmLog = <<>>
  /\ llmContent = Content("undefined", NoAnalysis)
  /\ analysis = NoAnalysis
  /\ saved = FALSE
  /\ runError = NoError
  /\ errLog = <<>>
  /\ exits = <<>>
  /\ tgCtx = "none"
  /\ tgPc = "idle"
  /\ tgMessage = <<>>
  /\ tgChunks = <<>>
  /\ tgQueue = <<>>
  /\ tgIdx = 0
  /\ tgTry = 0
  /\ tgLog = <<>>
  /\ sent = <<>>
  /\ PpIdle
  /\ dbOpen = FALSE
  /\ dbRows = {}
  /\ dbFile = {}
  /\ stCall = NoCall
  /\ stErrors = {}
  /\ dbFaults \in IF storageEnabled THEN {{}, {"open"}, {"insert"}} ELSE {{}}
  /\ LgIdle
  /\ OvIdle
  /\ LdIdle
  /\ RdIdle
  /\ CfIdle

ErrLogEntry(text, cause) == [msg |-> text, cause |-> cause]

\* an error reaches the catch of main: logger.error('Analysis failed', error)
Throw(error) ==
  /\ pc' = "catch"
  /\ runError' = error
  /\ errLog' = Append(errLog, ErrLogEntry("Analysis failed", error))

\* config.js is evaluated when the modules are loaded, before main runs:
\* when new Config() throws, node ends the process with status 1
LoadConfig ==
  /\ pc = "load"
  /\ IF configValid
     THEN /\ pc' = "construct"
          /\ UNCHANGED exits
     ELSE /\ pc' = "exited"
          /\ exits' = Append(exits, 1)
  /\ UNCHANGED <<configValid, ctorFailure, alertsChannelId, storageEnabled, fileState,
                 logContent, attempt, llmLog, llmContent, analysis, saved, runError, errLog>>
  /\ UNCHANGED tgVars
  /\ UNCHANGED <<ppVars, stVars, lgVars, ovVars, ldVars, rdVars, cfVars>>

\* step 1: the four constructors
Construct ==
  /\ pc = "construct"
  /\ IF ctorFailure # "none"
     THEN Throw(ErrCtor)
     ELSE /\ pc' = IF storageEnabled THEN "initialize" ELSE "read"
          /\ UNCHANGED <<runError, errLog>>
  /\ UNCHANGED <<configValid, ctorFailure, alertsChannelId, storageEnabled, fileState,
                 logContent, attempt, llmLog, llmContent, analysis, saved, exits>>
  /\ UNCHANGED tgVars
  /\ UNCHANGED <<ppVars, stVars, lgVars, ovVars, ldVars, rdVars, cfVars>>

\* initialize without its catch: a failure reaches the catch of main
StorageInitialize_rethrows ==
  /\ pc = "initialize"
  /\ \E fault \in {IF "open" \in dbFaults THEN "open" ELSE Fault("schema")} :
       /\ dbOpen' = (fault # "open")
       /\ dbRows' = IF fault = "open" THEN dbRows ELSE dbFile
       /\ stCall' = Call("initialize", 0, fault # "none", Absent)
       /\ stErrors' = IF fault = "none" THEN stErrors ELSE stErrors \cup {"initialize"}
       /\ IF fault = "none"
          THEN pc' = "read" /\ UNCHANGED <<runError, errLog>>
          ELSE Throw(T("Failed to initialize database"))
  /\ UNCHANGED <<configValid, ctorFailure, alertsChannelId, storageEnabled, fileState,
                 logContent, attempt, llmLog, llmContent, analysis, saved, exits>>
  /\ UNCHANGED tgVars
  /\ UNCHANGED <<dbFile, dbFaults, ppVars, lgVars, ovVars, ldVars, rdVars, cfVars>>

\* await storage.initialize(): a failure is caught and disables the storage
StorageInitialize ==
  /\ pc = "initialize"
  /\ \E fault \in {IF "open" \in dbFaults THEN "open" ELSE Fault("schema")} :
       /\ storageEnabled' = (fault = "none")
       /\ dbOpen' = (fault # "open")
       /\ dbRows' = IF fault = "open" THEN dbRows ELSE dbFile
       /\ stCall' = Call("initialize", 0, fault # "none", Absent)
       /\ stErrors' = IF fault = "none" THEN stErrors ELSE stErrors \cup {"initialize"}
  /\ pc' = "read"
  /\ UNCHANGED <<configValid, ctorFailure, alertsChannelId, fileState,
                 logContent, attempt, llmLog, llmContent, analysis, saved, runError,
                 errLog, exits>>
  /\ UNCHANGED tgVars
  /\ UNCHANGED <<dbFile, dbFaults, ppVars, lgVars, ovVars, ldVars, rdVars, cfVars>>

\* step 6: storage.getHistoricalContext(7), of which the SELECT can throw
HistoricalContext ==
  /\ \E fault \in {IF disabled(storageEnabled, dbOpen) THEN "none" ELSE Fault("query")} :
       \E summaries \in getRecentSummaries(storageEnabled, dbOpen, dbRows, ContextDays, fault) :
         /\ stCall' = Call("getHistoricalContext", ContextDays, fault # "none",
                           getHistoricalContext(ContextDays, summaries))
         /\ stErrors' = IF fault = "none" THEN stErrors
                        ELSE stErrors \cup {"getRecentSummaries"}
  /\ UNCHANGED <<dbOpen, dbRows, dbFile, dbFaults>>

\* steps 2 to 7, up to the first request of analyzeLogwatch
ReadLogwatchOutput ==
  /\ pc = "read"
  /\ CASE fileState \in {"absent", "empty"} ->
            /\ Throw(ErrNotFound)
            /\ UNCHANGED <<logContent, attempt, stVars>>
       [] fileState = "unreadable" ->
            /\ Throw(ErrPermission)
            /\ UNCHANGED <<logContent, attempt, stVars>>
       [] fileState = "ioerror" ->
            /\ Throw(ErrRead)
            /\ UNCHANGED <<logContent, attempt, stVars>>
       [] fileState = "blank" ->
            /\ logContent' = "blank"
            /\ Throw(ErrEmptyLog)
            /\ UNCHANGED <<attempt, stVars>>
       [] OTHER ->
            /\ logContent' = "digest"
            /\ attempt' = 1
            /\ pc' = "request"
            /\ HistoricalContext
            /\ UNCHANGED <<runError, errLog>>
  /\ UNCHANGED <<configValid, ctorFailure, alertsChannelId, storageEnabled, fileState,
                 llmLog, llmContent, analysis, saved, exits>>
  /\ UNCHANGED tgVars
  /\ UNCHANGED <<ppVars, lgVars, ovVars, ldVars, rdVars, cfVars>>

\* the catch of the retry loop of analyzeLogwatch
AttemptFailed(error) ==
  /\ llmLog' = Append(llmLog, LlmEvent("attempt", attempt, FALSE, error, 0))
  /\ IF attempt < maxRetries
     THEN /\ pc' = "backoff"
          /\ UNCHANGED <<runError, errLog>>
     ELSE Throw(ErrRetriesExhausted(error))

\* this.client.messages.create rejects (network, timeout, status)
ApiRequestFails ==
  /\ pc = "request"
  /\ AttemptFailed(ErrTimeout)
  /\ UNCHANGED <<configValid, ctorFailure, alertsChannelId, storageEnabled, fileState,
                 logContent, attempt, llmContent, analysis, saved, exits>>
  /\ UNCHANGED tgVars
  /\ UNCHANGED <<ppVars, stVars, lgVars, ovVars, ldVars, rdVars, cfVars>>

\* the response has no content block: response.content[0].text throws
\* inside the try of the loop
ApiRespondsEmpty ==
  /\ pc = "request"
  /\ AttemptFailed(ErrNoText)
  /\ UNCHANGED <<configValid, ctorFailure, alertsChannelId, storageEnabled, fileState,
                 logContent, attempt, llmContent, analysis, saved, exits>>
  /\ UNCHANGED tgVars
  /\ UNCHANGED <<ppVars, stVars, lgVars, ovVars, ldVars, rdVars, cfVars>>

\* await this.sleep(backoffDelay), then the next attempt
Backoff ==
  /\ pc = "backoff"
  /\ llmLog' = Append(llmLog, LlmEvent("sleep", attempt, TRUE, <<>>, calculateBackoff(attempt)))
  /\ attempt' = attempt + 1
  /\ pc' = "request"
  /\ UNCHANGED <<configValid, ctorFailure, alertsChannelId, storageEnabled, fileState,
                 logContent, llmContent, analysis, saved, runError, errLog, exits>>
  /\ UNCHANGED tgVars
  /\ UNCHANGED <<ppVars, stVars, lgVars, ovVars, ldVars, rdVars, cfVars>>

\* the response arrives and is parsed: analyzeLogwatch returns
ApiResponds ==
  /\ pc = "request"
  /\ \E content \in Responses :
       /\ llmContent' = content
       /\ analysis' = parseAnalysisResponse(content)
  /\ llmLog' = Append(llmLog, LlmEvent("attempt", attempt, TRUE, <<>>, 0))
  /\ pc' = "save"
  /\ UNCHANGED <<configValid, ctorFailure, alertsChannelId, storageEnabled, fileState,
                 logContent, attempt, saved, runError, errLog, exits>>
  /\ UNCHANGED tgVars
  /\ UNCHANGED <<ppVars, stVars, lgVars, ovVars, ldVars, rdVars, cfVars>>

\* step 8: saveSummary and cleanup catch their own failures
SaveAnalysis ==
  /\ pc = "save"
  /\ IF storageEnabled
     THEN \E saveFault \in {IF "insert" \in dbFaults THEN "insert" ELSE Fault("rowid")},
             cleanFault \in {IF "delete" \in dbFaults THEN "delete" ELSE Fault("count")} :
            \E inserted \in {saveSummary(storageEnabled, dbOpen, dbRows, analysis, saveFault)} :
              \E cleaned \in {cleanup(storageEnabled, dbOpen, inserted.rows, KeepDays, cleanFault)} :
                /\ saved' = ~inserted.ret.absent
                /\ IF inserted.ret.absent
                   THEN /\ dbRows' = inserted.rows
                        /\ stCall' = Call("saveSummary", 0, inserted.failed, inserted.ret)
                        /\ stErrors' = IF inserted.failed THEN stErrors \cup {"saveSummary"}
                                       ELSE stErrors
                        /\ UNCHANGED dbFile
                   ELSE /\ dbRows' = cleaned.rows
                        /\ stCall' = [Call("cleanup", KeepDays, cleaned.failed, cleaned.ret)
                                        EXCEPT !.before = inserted.rows]
                        /\ stErrors' = IF cleaned.failed THEN stErrors \cup {"cleanup"}
                                       ELSE stErrors
                        /\ WriteFile(IF cleaned.saves THEN cleaned.rows ELSE inserted.rows)
     ELSE UNCHANGED <<saved, dbRows, dbFile, stCall, stErrors>>
  /\ pc' = "report"
  /\ UNCHANGED <<configValid, ctorFailure, alertsChannelId, storageEnabled, fileState,
                 logContent, attempt, llmLog, llmContent, analysis, runError, errLog, exits>>
  /\ UNCHANGED tgVars
  /\ UNCHANGED <<dbOpen, dbFaults, ppVars, lgVars, ovVars, ldVars, rdVars, cfVars>>

\* step 9: sendAnalysisReport formats the message and calls sendMessage
SendAnalysisReport ==
  /\ pc = "report"
  /\ IF escapeThrows(analysis.summary)
     THEN /\ Throw(ErrReplace)
          /\ UNCHANGED tgVars
     ELSE /\ \E message \in {formatAnalysisMessage(analysis)} :
               SendMessageCall("report", message)
          /\ pc' = "sending"
          /\ UNCHANGED <<runError, errLog>>
  /\ UNCHANGED <<configValid, ctorFailure, alertsChannelId, storageEnabled, fileState,
                 logContent, attempt, llmLog, llmContent, analysis, saved, exits>>
  /\ UNCHANGED <<ppVars, stVars, lgVars, ovVars, ldVars, rdVars, cfVars>>

\* a slip: a failed delivery is only logged and the run ends as a success
ReportFinished_swallowsFailure ==
  /\ pc = "sending"
  /\ tgCtx = "report"
  /\ tgPc \in {"returned", "thrown"}
  /\ pc' = "exited"
  /\ exits' = Append(exits, 0)
  /\ UNCHANGED <<runError, errLog>>
  /\ UNCHANGED <<configValid, ctorFailure, alertsChannelId, storageEnabled, fileState,
                 logContent, attempt, llmLog, llmContent, analysis, saved>>
  /\ UNCHANGED tgVars
  /\ UNCHANGED <<ppVars, stVars, lgVars, ovVars, ldVars, rdVars, cfVars>>

\* sendAnalysisReport returns: steps 10 and 11, storage.close() and
\* process.exit(0); or it throws what sendSingleMessage threw
ReportFinished ==
  /\ pc = "sending"
  /\ tgCtx = "report"
  /\ tgPc \in {"returned", "thrown"}
  /\ IF tgPc = "returned"
     THEN /\ pc' = "exited"
          /\ exits' = Append(exits, 0)
          /\ stCall' = Call("close", 0, FALSE, Absent)
          /\ IF dbOpen THEN WriteFile(dbRows) ELSE UNCHANGED dbFile
          /\ UNCHANGED <<runError, errLog>>
     ELSE /\ Throw(ErrSend)
          /\ UNCHANGED <<exits, stCall, dbFile>>
  /\ UNCHANGED <<configValid, ctorFailure, alertsChannelId, storageEnabled, fileState,
                 logContent, attempt, llmLog, llmContent, analysis, saved>>
  /\ UNCHANGED tgVars
  /\ UNCHANGED <<dbOpen, dbRows, stErrors, dbFaults, ppVars, lgVars, ovVars, ldVars, rdVars, cfVars>>

\* the catch of main: a fresh TelegramClient and sendError; when the
\* constructor throws, the inner catch logs it and the process exits
NotifyFailure ==
  /\ pc = "catch"
  /\ IF ctorFailure = "telegram"
     THEN /\ errLog' = Append(errLog, ErrLogEntry("Failed to send error notification", ErrCtor))
          /\ exits' = Append(exits, 1)
          /\ pc' = "exited"
          /\ UNCHANGED tgVars
     ELSE /\ \E message \in {formatErrorMessage(T("Analysis failed: ") \o runError)} :
               SendMessageCall("error", message)
          /\ pc' = "notifying"
          /\ UNCHANGED <<errLog, exits>>
  /\ UNCHANGED <<configValid, ctorFailure, alertsChannelId, storageEnabled, fileState,
                 logContent, attempt, llmLog, llmContent, analysis, saved, runError>>
  /\ UNCHANGED <<ppVars, stVars, lgVars, ovVars, ldVars, rdVars, cfVars>>

\* a slip: sendError throws what sendMessage threw, into the inner catch of main
NotifyFinished_rethrows ==
  /\ pc = "notifying"
  /\ tgCtx = "error"
  /\ tgPc \in {"returned", "thrown"}
  /\ errLog' = IF tgPc = "thrown"
               THEN Append(errLog, ErrLogEntry("Failed to send error notification", ErrSend))
               ELSE errLog
  /\ exits' = Append(exits, 1)
  /\ pc' = "exited"
  /\ UNCHANGED <<configValid, ctorFailure, alertsChannelId, storageEnabled, fileState,
                 logContent, attempt, llmLog, llmContent, analysis, saved, runError>>
  /\ UNCHANGED tgVars
  /\ UNCHANGED <<ppVars, stVars, lgVars, ovVars, ldVars, rdVars, cfVars>>

\* sendError returns, having logged a failed send itself; process.exit(1)
NotifyFinished ==
  /\ pc = "notifying"
  /\ tgCtx = "error"
  /\ tgPc \in {"returned", "thrown"}
  /\ errLog' = IF tgPc = "thrown"
               THEN Append(errLog, ErrLogEntry("Failed to send error notification to Telegram",
                                               ErrSend))
               ELSE errLog
  /\ exits' = Append(exits, 1)
  /\ pc' = "exited"
  /\ UNCHANGED <<configValid, ctorFailure, alertsChannelId, storageEnabled, fileState,
                 logContent, attempt, llmLog, llmContent, analysis, saved, runError>>
  /\ UNCHANGED tgVars
  /\ UNCHANGED <<ppVars, stVars, lgVars, ovVars, ldVars, rdVars, cfVars>>

Next ==
  \/ LoadConfig
  \/ Construct
  \/ StorageInitialize
  \/ ReadLogwatchOutput
  \/ ApiRequestFails
  \/ ApiRespondsEmpty
  \/ Backoff
  \/ ApiResponds
  \/ SaveAnalysis
  \/ SendAnalysisReport
  \/ ReportFinished
  \/ NotifyFailure
  \/ NotifyFinished
  \/ ApiSendOk
  \/ ApiSendFail
  \/ RetryWait
  \/ PartPauseDone

Spec == Init /\ [][Next]_vars

\* every promise settles and every sleep ends: a step that can be taken is taken
FairSpec == Spec /\ WF_vars(Next)

----------------------------------------------------------------------------
(* The Telegram client alone: sendMessage applied to bounded messages *)

\* representative line fragments: a short one, one that fills more than
\* half a part, the longest that fits a part, and the shortest that does not
Fragments ==
  { Blk("s", 10, 0), Blk("h", 2500, 0),
    Blk("f", maxMessageLength - PartIndicatorReserve - 1, 0),
    Blk("x", maxMessageLength - PartIndicatorReserve, 0) }

Messages == UNION { [1..k -> Fragments \cup {NL}] : k \in 0..MaxMsgTokens }

SendInit ==
  /\ MainIdle
  /\ tgCtx = "none"
  /\ tgPc = "idle"
  /\ tgMessage \in Messages
  /\ tgChunks = <<>>
  /\ tgQueue = <<>>
  /\ tgIdx = 0
  /\ tgTry = 0
  /\ tgLog = <<>>
  /\ sent = <<>>
  /\ PpIdle
  /\ StIdle
  /\ LgIdle
  /\ OvIdle
  /\ LdIdle
  /\ RdIdle
  /\ CfIdle

\* a caller invokes sendMessage(message)
SendMessageDirect ==
  /\ tgPc = "idle"
  /\ tgCtx = "none"
  /\ SendMessageCall("direct", tgMessage)
  /\ UNCHANGED mainVars
  /\ UNCHANGED <<ppVars, stVars, lgVars, ovVars, ldVars, rdVars, cfVars>>

SendNext == SendMessageDirect \/ ApiSendOk \/ ApiSendFail \/ RetryWait \/ PartPauseDone

SendSpec == SendInit /\ [][SendNext]_vars

----------------------------------------------------------------------------
(* parseAnalysisResponse alone, applied to bounded decoded responses *)

StatusValues ==
  { JStr(T(st)) : st \in validStatuses \cup {"Mostly Fine"} } \cup {JNum(T("1")), JNull, JAbsent}

SummaryValues == {ShortSummary, JNull, JAbsent}

ListValues == {JList(<<>>), JList(<<T("sshd: 20 failed logins")>>), JStr(T("none")), JNull, JAbsent}

MetricsValues ==
  { JMap(<<>>, <<>>), SomeMetrics, JList(<<>>), JList(<<T("12"), T("3")>>),
    JStr(T("n/a")), JNum(T("7")), JNull, JAbsent }

ParseContents ==
  { Decoded(st, su, ci, wa, re, me) :
      st \in StatusValues, su \in SummaryValues, ci \in ListValues,
      wa \in ListValues, re \in ListValues, me \in MetricsValues }
  \cup { Content("nojson", NoAnalysis), Content("badjson", NoAnalysis),
         Content("undefined", NoAnalysis) }

ParseInit ==
  /\ pc = "parse"
  /\ configValid = TRUE
  /\ ctorFailure = "none"
  /\ alertsChannelId = NULL
  /\ storageEnabled = FALSE
  /\ fileState = "digest"
  /\ logContent = NULL
  /\ attempt = 0
  /\ llmLog = <<>>
  /\ llmContent \in ParseContents
  /\ analysis = NoAnalysis
  /\ saved = FALSE
  /\ runError = NoError
  /\ errLog = <<>>
  /\ exits = <<>>
  /\ tgCtx = "none"
  /\ tgPc = "idle"
  /\ tgMessage = <<>>
  /\ tgChunks = <<>>
  /\ tgQueue = <<>>
  /\ tgIdx = 0
  /\ tgTry = 0
  /\ tgLog = <<>>
  /\ sent = <<>>
  /\ PpIdle
  /\ StIdle
  /\ LgIdle
  /\ OvIdle
  /\ LdIdle
  /\ RdIdle
  /\ CfIdle

\* const analysis = this.parseAnalysisResponse(content)
ParseResponse ==
  /\ pc = "parse"
  /\ analysis' = parseAnalysisResponse(llmContent)
  /\ pc' = "parsed"
  /\ UNCHANGED <<configValid, ctorFailure, alertsChannelId, storageEnabled, fileState,
                 logContent, attempt, llmLog, llmContent, saved, runError, errLog, exits>>
  /\ UNCHANGED tgVars
  /\ UNCHANGED <<ppVars, stVars, lgVars, ovVars, ldVars, rdVars, cfVars>>

ParseNext == ParseResponse

ParseSpec == ParseInit /\ [][ParseNext]_vars

----------------------------------------------------------------------------
(* The preprocessor on its own: a new LogwatchPreprocessor is given a      *)
(* digest and one of its methods is applied, as the reader and the tests   *)
(* of scripts/install.sh do.                                               *)

\* the most lines of a digest
MaxDigestLines == 4

\* a section header of logwatch, for the given section
Header(text, section) == Phrase(text, Len(text), 4, section, "", "")

\* a line of the given noise pattern, from the given address
NoiseLine(text, pattern, address) ==
  <<Phrase(text \o address \o " port 22 ssh2", Len(text) + Len(address) + 13,
           8, "", pattern, address)>>

\* a line of 400000 characters in 50000 words: 100000 tokens, so that one
\* is below the ceiling and two are above it
LongLine(text) == <<Phrase(text, 400000, 50000, "", "", "")>>

\* the lines digests are made of
DigestLines ==
  { <<Header("--------------------- SSHD Begin ------------------------", "ssh")>>,
    <<Header("--------------------- Cron Begin ------------------------", "cron")>>,
    <<Words("eth0: link is up", 4)>>,
    NoiseLine("Failed password for root from ", "failedPassword", "10.0.0.1"),
    NoiseLine("Failed password for root from ", "failedPassword", "10.0.0.2"),
    <<>>,
    LongLine("audit records of the morning"),
    LongLine("audit records of the evening") }

\* the digests: up to MaxDigestLines lines joined by newlines
Digests ==
  UNION { { join(lines, <<DNl>>) : lines \in [1..count -> DigestLines] } :
          count \in 0..MaxDigestLines }

PreInit ==
  /\ MainIdle
  /\ tgCtx = "none"
  /\ tgPc = "idle"
  /\ tgMessage = <<>>
  /\ tgChunks = <<>>
  /\ tgQueue = <<>>
  /\ tgIdx = 0
  /\ tgTry = 0
  /\ tgLog = <<>>
  /\ sent = <<>>
  /\ ppPc = "ready"
  /\ ppContent \in Digests
  /\ ppOp = ""
  /\ ppOut = <<>>
  /\ ppStats = NewStats
  /\ StIdle
  /\ LgIdle
  /\ OvIdle
  /\ LdIdle
  /\ RdIdle
  /\ CfIdle

\* preprocessor.estimateTokens(content)
EstimateTokensCall ==
  /\ ppPc = "ready"
  /\ ppPc' = "done"
  /\ ppOp' = "estimateTokens"
  /\ ppOut' = estimateTokens(ppContent)
  /\ UNCHANGED <<ppContent, ppStats, mainVars, tgVars, stVars, lgVars, ovVars, ldVars, rdVars, cfVars>>

\* sections = preprocessor.parseSections(content), then
\* sections.map(s => preprocessor.deduplicateSection(s)): the lines of each
\* this.parseSections(content): the line lists of the sections it returns
ParseSectionsCall ==
  /\ ppPc = "ready"
  /\ ppPc' = "done"
  /\ ppOp' = "parseSections"
  /\ \E sections \in {parseSections(ppContent)} :
       ppOut' = [s \in 1..Len(sections) |-> sections[s].lines]
  /\ UNCHANGED <<ppContent, ppStats, mainVars, tgVars, stVars, lgVars, ovVars, ldVars, rdVars, cfVars>>

DeduplicateCall ==
  /\ ppPc = "ready"
  /\ ppPc' = "done"
  /\ ppOp' = "deduplicate"
  /\ \E sections \in {parseSections(ppContent)} :
       \E deduped \in {[s \in 1..Len(sections) |-> deduplicateSection(sections[s])]} :
         /\ ppOut' = [s \in 1..Len(sections) |-> deduped[s].section.lines]
         /\ ppStats' = [ppStats EXCEPT !.linesDeduplicated =
                          @ + Sum([s \in 1..Len(sections) |-> deduped[s].deduplicated])]
  /\ UNCHANGED <<ppContent, mainVars, tgVars, stVars, lgVars, ovVars, ldVars, rdVars, cfVars>>

\* content = this.preprocessor.preprocess(content); stats = getStats()
PreprocessCall ==
  /\ ppPc = "ready"
  /\ ppPc' = "done"
  /\ ppOp' = "preprocess"
  /\ \E result \in {preprocess(ppContent, ppStats)} :
       /\ ppOut' = result.out
       /\ ppStats' = result.stats
  /\ UNCHANGED <<ppContent, mainVars, tgVars, stVars, lgVars, ovVars, ldVars, rdVars, cfVars>>

PreNext == EstimateTokensCall \/ ParseSectionsCall \/ DeduplicateCall \/ PreprocessCall

PreSpec == PreInit /\ [][PreNext]_vars

----------------------------------------------------------------------------
(* The storage on its own: a Storage is constructed over a database file   *)
(* and its operations are called, any statement of an operation being      *)
(* able to throw.                                                          *)

\* the calls of saveSummary allowed in a behaviour
MaxSaves == 1

\* the analyses handed to saveSummary
SavedAnalyses == { FallbackAnalysis, Healthy("Good").obj }

StoreInit ==
  /\ pc = "idle"
  /\ configValid = TRUE
  /\ ctorFailure = "none"
  /\ alertsChannelId = NULL
  /\ storageEnabled \in BOOLEAN
  /\ fileState = "digest"
  /\ logContent = NULL
  /\ attempt = 0
  /\ llmLog = <<>>
  /\ llmContent = Content("undefined", NoAnalysis)
  /\ analysis = NoAnalysis
  /\ saved = FALSE
  /\ runError = NoError
  /\ errLog = <<>>
  /\ exits = <<>>
  /\ tgCtx = "none"
  /\ tgPc = "idle"
  /\ tgMessage = <<>>
  /\ tgChunks = <<>>
  /\ tgQueue = <<>>
  /\ tgIdx = 0
  /\ tgTry = 0
  /\ tgLog = <<>>
  /\ sent = <<>>
  /\ PpIdle
  /\ dbOpen = FALSE
  /\ dbRows = {}
  /\ dbFile \in SUBSET StoredRows
  /\ stCall = NoCall
  /\ stErrors = {}
  /\ dbFaults = {}
  /\ LgIdle
  /\ OvIdle
  /\ LdIdle
  /\ RdIdle
  /\ CfIdle

StoreFrame ==
  UNCHANGED <<pc, configValid, ctorFailure, alertsChannelId, fileState, logContent, attempt,
              llmLog, llmContent, analysis, saved, runError, errLog, exits, tgVars, ppVars,
              lgVars, ovVars, ldVars, rdVars, cfVars, stErrors, dbFaults>>

\* await storage.initialize(), called first and only when enabled: it
\* succeeds, or throws before the database is created, or throws in
\* createSchema
InitializeCall ==
  /\ stCall = NoCall
  /\ storageEnabled
  /\ \E fault \in {"none", "open", "schema"} :
       /\ storageEnabled' = (fault = "none")
       /\ dbOpen' = (fault # "open")
       /\ dbRows' = IF fault = "open" THEN dbRows ELSE dbFile
       /\ stCall' = Call("initialize", 0, fault # "none", Absent)
       /\ IF fault = "none" THEN saveToFile(dbFile) ELSE UNCHANGED dbFile
  /\ StoreFrame

\* an operation can be called: the storage is not closed and, when it is
\* enabled, initialize has been awaited
Callable == stCall.op # "close" /\ (storageEnabled => dbOpen)

SaveSummaryCall ==
  /\ Callable
  /\ Cardinality({ r \in dbRows : r.id > MaxStoredId }) < MaxSaves
  /\ \E value \in SavedAnalyses, fault \in {"none", "insert", "rowid"} :
       \E result \in {saveSummary(storageEnabled, dbOpen, dbRows, value, fault)} :
         /\ fault # "none" => ~disabled(storageEnabled, dbOpen)
         /\ dbRows' = result.rows
         /\ stCall' = Call("saveSummary", 0, result.failed, result.ret)
         /\ IF result.saves THEN saveToFile(result.rows) ELSE UNCHANGED dbFile
  /\ UNCHANGED <<storageEnabled, dbOpen>>
  /\ StoreFrame

GetRecentSummariesCall ==
  /\ Callable
  /\ \E days \in DaysArgs, fault \in {"none", "query"} :
       \E summaries \in getRecentSummaries(storageEnabled, dbOpen, dbRows, days, fault) :
         /\ fault # "none" => ~disabled(storageEnabled, dbOpen)
         /\ stCall' = Call("getRecentSummaries", days, fault # "none", Value(summaries))
  /\ UNCHANGED <<storageEnabled, dbOpen, dbRows, dbFile>>
  /\ StoreFrame

GetHistoricalContextCall ==
  /\ Callable
  /\ \E days \in DaysArgs, fault \in {"none", "query"} :
       \E summaries \in getRecentSummaries(storageEnabled, dbOpen, dbRows, days, fault) :
         /\ fault # "none" => ~disabled(storageEnabled, dbOpen)
         /\ stCall' = Call("getHistoricalContext", days, fault # "none",
                           getHistoricalContext(days, summaries))
  /\ UNCHANGED <<storageEnabled, dbOpen, dbRows, dbFile>>
  /\ StoreFrame

GetTrendsCall ==
  /\ Callable
  /\ \E fault \in {"none", "query"} :
       /\ fault # "none" => ~disabled(storageEnabled, dbOpen)
       /\ IF disabled(storageEnabled, dbOpen)
          THEN stCall' = Call("getTrends", 0, FALSE, Absent)
          ELSE \E summaries \in
                   getRecentSummaries(storageEnabled, dbOpen, dbRows, TrendDays, fault) :
                 stCall' = Call("getTrends", 0, fault # "none", getTrends(summaries))
  /\ UNCHANGED <<storageEnabled, dbOpen, dbRows, dbFile>>
  /\ StoreFrame

CleanupCall ==
  /\ Callable
  /\ \E days \in DaysArgs, fault \in {"none", "delete", "count"} :
       \E result \in {cleanup(storageEnabled, dbOpen, dbRows, days, fault)} :
         /\ fault # "none" => ~disabled(storageEnabled, dbOpen)
         /\ dbRows' = result.rows
         /\ stCall' = Call("cleanup", days, result.failed, result.ret)
         /\ IF result.saves THEN saveToFile(result.rows) ELSE UNCHANGED dbFile
  /\ UNCHANGED <<storageEnabled, dbOpen>>
  /\ StoreFrame

GetStatsCall ==
  /\ Callable
  /\ \E fault \in {"none", "query"} :
       /\ fault # "none" => ~disabled(storageEnabled, dbOpen)
       /\ stCall' = Call("getStats", 0, fault # "none",
                         getStats(storageEnabled, dbOpen, dbRows, fault))
  /\ UNCHANGED <<storageEnabled, dbOpen, dbRows, dbFile>>
  /\ StoreFrame

\* storage.close(): when there is a database it is saved and closed
CloseCall ==
  /\ Callable
  /\ stCall' = Call("close", 0, FALSE, Absent)
  /\ IF dbOpen THEN saveToFile(dbRows) ELSE UNCHANGED dbFile
  /\ UNCHANGED <<storageEnabled, dbOpen, dbRows>>
  /\ StoreFrame

StoreNext ==
  \/ InitializeCall
  \/ SaveSummaryCall
  \/ GetRecentSummariesCall
  \/ GetHistoricalContextCall
  \/ GetTrendsCall
  \/ CleanupCall
  \/ GetStatsCall
  \/ CloseCall

StoreSpec == StoreInit /\ [][StoreNext]_vars

----------------------------------------------------------------------------
(* main() with a database: the configuration is valid, the constructors    *)
(* succeed, and the run starts from a database file with rows of several   *)
(* ages and a choice of the database statements that will throw.           *)

\* the most statements that throw in one run
MaxFaults == 1

\* the statements on the database that can throw: opening the database,
\* createSchema, the SELECT of getRecentSummaries, the INSERT and the SELECT
\* of saveSummary, the DELETE and the last COUNT of cleanup, and the write
\* of saveToFile
Faults == {"open", "schema", "query", "insert", "rowid", "delete", "count", "write"}

\* the database files a run starts with: none, or rows 91 days, exactly 90
\* days and 6 days old
DatabaseFiles ==
  { {}, { r \in StoredRows : r.timestamp \in {Now - 91 * Day, Now - KeepDays * Day, Now - 6 * Day} } }

DbRunInit ==
  /\ pc = "load"
  /\ configValid = TRUE
  /\ ctorFailure = "none"
  /\ alertsChannelId = NULL
  /\ storageEnabled \in BOOLEAN
  /\ fileState \in {"digest", "absent"}
  /\ logContent = NULL
  /\ attempt = 0
  /\ llmLog = <<>>
  /\ llmContent = Content("undefined", NoAnalysis)
  /\ analysis = NoAnalysis
  /\ saved = FALSE
  /\ runError = NoError
  /\ errLog = <<>>
  /\ exits = <<>>
  /\ tgCtx = "none"
  /\ tgPc = "idle"
  /\ tgMessage = <<>>
  /\ tgChunks = <<>>
  /\ tgQueue = <<>>
  /\ tgIdx = 0
  /\ tgTry = 0
  /\ tgLog = <<>>
  /\ sent = <<>>
  /\ PpIdle
  /\ dbOpen = FALSE
  /\ dbRows = {}
  /\ dbFile \in DatabaseFiles
  /\ stCall = NoCall
  /\ stErrors = {}
  /\ dbFaults \in IF storageEnabled
                  THEN { plan \in SUBSET Faults : Cardinality(plan) <= MaxFaults }
                  ELSE {{}}
  /\ LgIdle
  /\ OvIdle
  /\ LdIdle
  /\ RdIdle
  /\ CfIdle

DbRunSpec == DbRunInit /\ [][Next]_vars

----------------------------------------------------------------------------
(* The logger alone: constructed with a level, then asked to write lines   *)
(* of every level, short and as long as a whole log file.                  *)

\* the most calls of write in one behaviour
MaxWrites == 6

\* LOG_LEVEL: the four levels and a word that is no level
LogLevels == DOMAIN levels \cup {"verbose"}

\* the lengths of the formatted lines: an ordinary line and a line that
\* fills the file to its limit
LineBytes == {64, maxFileSize}

\* the file operation that throws in a behaviour: none, the append, or the
\* unlink or rename of the path with a given suffix
LogFaults == {NoLogFault, AppendFault} \cup { MoveFault(k) : k \in 0 .. maxFiles - 1 }

LogInit ==
  /\ MainIdle
  /\ tgCtx = "none"
  /\ tgPc = "idle"
  /\ tgMessage = <<>>
  /\ tgChunks = <<>>
  /\ tgQueue = <<>>
  /\ tgIdx = 0
  /\ tgTry = 0
  /\ tgLog = <<>>
  /\ sent = <<>>
  /\ PpIdle
  /\ StIdle
  /\ lgLevel \in LogLevels
  /\ lgFiles = NoFiles
  /\ lgNext = 1
  /\ lgCall = NoCall
  /\ lgFault \in LogFaults
  /\ OvIdle
  /\ LdIdle
  /\ RdIdle
  /\ CfIdle

\* logger.debug / info / warn / error: write(level, message)
WriteCall ==
  /\ lgNext <= MaxWrites
  /\ \E level \in DOMAIN levels, bytes \in LineBytes :
       \E done \in {write(lgLevel, lgFiles, level, lgNext, bytes, lgFault)} :
         /\ lgFiles' = done.files
         /\ lgCall' = [op |-> "write", level |-> level, line |-> lgNext, bytes |-> bytes,
                       before |-> lgFiles, passed |-> done.passed,
                       rotated |-> done.rotated, rotateFailed |-> done.rotateFailed,
                       appendFailed |-> done.appendFailed]
  /\ lgNext' = lgNext + 1
  /\ UNCHANGED <<lgLevel, lgFault>>
  /\ UNCHANGED <<mainVars, tgVars, ppVars, stVars, ovVars, ldVars, rdVars, cfVars>>

LogNext == WriteCall

LogSpec == LogInit /\ [][LogNext]_vars

----------------------------------------------------------------------------
(* new Config(): the required variables, MAX_LOG_SIZE_MB and validate().   *)
(* The value of MAX_LOG_SIZE_MB is a string, modelled as the sequence of   *)
(* its characters; the other variables are unset, well-formed or           *)
(* malformed.                                                              *)

\* the longest value of MAX_LOG_SIZE_MB
MaxSettingLen == 3

\* a variable that is not in the environment
Unset == [set |-> FALSE, text |-> <<>>]

\* a variable with a value
Setting(text) == [set |-> TRUE, text |-> text]

\* the number a decimal digit stands for
DigitValue(c) ==
  CASE c = "0" -> 0 [] c = "1" -> 1 [] c = "2" -> 2 [] c = "3" -> 3 [] c = "4" -> 4
    [] c = "5" -> 5 [] c = "6" -> 6 [] c = "7" -> 7 [] c = "8" -> 8 [] c = "9" -> 9

IsDigit(c) == c \in {"0", "1", "2", "3", "4", "5", "6", "7", "8", "9"}

NaN == [nan |-> TRUE, value |-> 0]

Num(n) == [nan |-> FALSE, value |-> n]

\* the digits at the start of a text: how many, and their decimal value
RECURSIVE leadingDigits(_, _, _)
leadingDigits(text, count, value) ==
  IF count < Len(text) /\ IsDigit(text[count + 1])
  THEN leadingDigits(text, count + 1, 10 * value + DigitValue(text[count + 1]))
  ELSE [count |-> count, value |-> value]

\* parseInt(string) with no radix, for a string without white space and
\* without the prefix 0x: an optional sign, then the leading digits; NaN
\* when there is no digit, and also for undefined
parseInt(setting) ==
  IF ~setting.set
  THEN NaN
  ELSE LET signed == Len(setting.text) > 0 /\ setting.text[1] \in {"-", "+"}
           digits == leadingDigits(IF signed THEN Tail(setting.text) ELSE setting.text, 0, 0)
       IN  IF digits.count = 0
           THEN NaN
           ELSE Num(IF signed /\ setting.text[1] = "-" THEN 0 - digits.value ELSE digits.value)

\* number || fallback: the fallback replaces NaN and 0
orElse(number, fallback) == IF number.nan \/ number.value = 0 THEN fallback ELSE number.value

\* parseInt(process.env.MAX_LOG_SIZE_MB) || 10
maxSizeMB(env) == orElse(parseInt(env.MAX_LOG_SIZE_MB), 10)

\* what the constructor gave: an error thrown, or the configuration
Thrown(message) == [error |-> message, maxSizeMB |-> 0]

Configured(size) == [error |-> "none", maxSizeMB |-> size]

\* new Config(): getRequired for the three required variables, then validate()
Config(env) ==
  IF env.ANTHROPIC_API_KEY = "unset"
  THEN Thrown("Required environment variable ANTHROPIC_API_KEY is not set")
  ELSE IF env.TELEGRAM_BOT_TOKEN = "unset"
  THEN Thrown("Required environment variable TELEGRAM_BOT_TOKEN is not set")
  ELSE IF env.TELEGRAM_CHANNEL_ARCHIVE_ID = "unset"
  THEN Thrown("Required environment variable TELEGRAM_CHANNEL_ARCHIVE_ID is not set")
  ELSE IF env.ANTHROPIC_API_KEY = "malformed"
  THEN Thrown("Invalid ANTHROPIC_API_KEY format")
  ELSE IF env.TELEGRAM_BOT_TOKEN = "malformed"
  THEN Thrown("Invalid TELEGRAM_BOT_TOKEN format")
  ELSE IF env.TELEGRAM_CHANNEL_ARCHIVE_ID = "malformed"
  THEN Thrown("Invalid TELEGRAM_CHANNEL_ARCHIVE_ID format")
  ELSE IF env.TELEGRAM_CHANNEL_ALERTS_ID = "malformed"
  THEN Thrown("Invalid TELEGRAM_CHANNEL_ALERTS_ID format")
  ELSE IF maxSizeMB(env) < 1 \/ maxSizeMB(env) > 100
  THEN Thrown("MAX_LOG_SIZE_MB must be between 1 and 100")
  ELSE Configured(maxSizeMB(env))

\* the characters of the values of MAX_LOG_SIZE_MB
SettingChars == {"-", ".", "0", "1", "5", "a"}

\* the values of MAX_LOG_SIZE_MB: unset, empty, and every string of the
\* characters up to the longest
SizeSettings ==
  {Unset} \cup { Setting(text) : text \in UNION { [1 .. n -> SettingChars] : n \in 0 .. MaxSettingLen } }

Presence == {"unset", "wellformed", "malformed"}

Environments ==
  [ ANTHROPIC_API_KEY : Presence,
    TELEGRAM_BOT_TOKEN : {"wellformed"},
    TELEGRAM_CHANNEL_ARCHIVE_ID : {"wellformed", "malformed"},
    TELEGRAM_CHANNEL_ALERTS_ID : {"unset", "wellformed"},
    MAX_LOG_SIZE_MB : SizeSettings ]

ConfigInit ==
  /\ MainIdle
  /\ tgCtx = "none"
  /\ tgPc = "idle"
  /\ tgMessage = <<>>
  /\ tgChunks = <<>>
  /\ tgQueue = <<>>
  /\ tgIdx = 0
  /\ tgTry = 0
  /\ tgLog = <<>>
  /\ sent = <<>>
  /\ PpIdle
  /\ StIdle
  /\ LgIdle
  /\ OvIdle
  /\ LdIdle
  /\ RdIdle
  /\ cfPc = "ready"
  /\ cfEnv \in Environments
  /\ cfOut = NoCall

\* export default new Config()
ConfigConstruct ==
  /\ cfPc = "ready"
  /\ cfOut' = Config(cfEnv)
  /\ cfPc' = "done"
  /\ UNCHANGED cfEnv
  /\ UNCHANGED <<mainVars, tgVars, ppVars, stVars, lgVars, ovVars, ldVars, rdVars>>

ConfigNext == ConfigConstruct

ConfigSpec == ConfigInit /\ [][ConfigNext]_vars

----------------------------------------------------------------------------
(* LogwatchReader.readLogwatchOutput on a digest file.  The digest is      *)
(* text of one byte per character, so the size of the file in bytes is the *)
(* length of its text.                                                     *)

\* the most lines of the digest file
MaxFileLines == 3

\* this.maxSizeBytes = config.logwatch.maxSizeMB * 1024 * 1024
maxSizeBytes(file) == file.maxSizeMB * 1024 * 1024

\* the first bytes of a text: whole tokens while they fit, then the part
\* of the next token that fits
RECURSIVE firstBytes(_, _)
firstBytes(text, bytes) ==
  IF text = <<>> \/ bytes <= 0
  THEN <<>>
  ELSE IF Head(text).n <= bytes
       THEN <<Head(text)>> \o firstBytes(Tail(text), bytes - Head(text).n)
       ELSE <<[Head(text) EXCEPT !.n = bytes]>>

\* a read that does not stop at the ceiling
readTruncated_wholeFile(file) == file.content

\* readTruncated(): openSync, readSync of maxSizeBytes bytes from position
\* 0, toString('utf8') of the bytes read
readTruncated(file) == firstBytes(file.content, maxSizeBytes(file))

\* what readLogwatchOutput gave
ReadThrew(error) == [threw |-> error, content |-> Absent, preprocessed |-> FALSE]

ReadGave(content, preprocessed) ==
  [threw |-> "none", content |-> content, preprocessed |-> preprocessed]

\* getFileSize(): stats.size, or 0 when statSync throws
getFileSize(file) == IF file.fault = "stat" THEN 0 ELSE textLength(file.content)

\* readLogwatchOutput(): the checks in their order, then the read and the
\* preprocessing; stats is this.preprocessor.stats
readLogwatchOutput(file, stats) ==
  IF file.state = "missing"
  THEN [result |-> ReadGave(Absent, FALSE), stats |-> stats]
  ELSE IF file.state = "unreadable"
  THEN [result |-> ReadThrew("Permission denied"), stats |-> stats]
  ELSE IF getFileSize(file) = 0
  THEN [result |-> ReadGave(Absent, FALSE), stats |-> stats]
  ELSE IF getFileSize(file) > maxSizeBytes(file)
  THEN IF file.fault = "read"
       THEN [result |-> ReadThrew("read"), stats |-> stats]
       ELSE [result |-> ReadGave(Value(readTruncated(file)), FALSE), stats |-> stats]
  ELSE IF file.fault = "read"
  THEN [result |-> ReadThrew("read"), stats |-> stats]
  ELSE IF file.preprocessingEnabled
  THEN LET processed == preprocess(file.content, stats)
       IN  [result |-> ReadGave(Value(processed.out), TRUE), stats |-> processed.stats]
  ELSE [result |-> ReadGave(Value(file.content), FALSE), stats |-> stats]

\* the lines digest files are made of
FileLines ==
  { <<Header("--------------------- SSHD Begin ------------------------", "ssh")>>,
    NoiseLine("Failed password for root from ", "failedPassword", "10.0.0.1"),
    <<>>,
    LongLine("audit records of the morning") }

FileContents ==
  UNION { { join(lines, <<DNl>>) : lines \in [1..count -> FileLines] } :
          count \in 0..MaxFileLines }

\* the digest file, MAX_LOG_SIZE_MB, ENABLE_PREPROCESSING, and the call of
\* fs that throws: none, statSync, or the read of the content
ReaderFiles ==
  [ state : {"missing", "unreadable", "present"},
    content : FileContents,
    maxSizeMB : {1, 10},
    preprocessingEnabled : BOOLEAN,
    fault : {"none", "stat", "read"} ]

ReadInit ==
  /\ MainIdle
  /\ tgCtx = "none"
  /\ tgPc = "idle"
  /\ tgMessage = <<>>
  /\ tgChunks = <<>>
  /\ tgQueue = <<>>
  /\ tgIdx = 0
  /\ tgTry = 0
  /\ tgLog = <<>>
  /\ sent = <<>>
  /\ PpIdle
  /\ StIdle
  /\ LgIdle
  /\ OvIdle
  /\ LdIdle
  /\ CfIdle
  /\ rdPc = "ready"
  /\ rdFile \in ReaderFiles
  /\ rdOut = NoCall

\* await logwatchReader.readLogwatchOutput()
ReadDigest ==
  /\ rdPc = "ready"
  /\ \E done \in {readLogwatchOutput(rdFile, ppStats)} :
       /\ rdOut' = done.result
       /\ ppStats' = done.stats
       /\ IF done.result.preprocessed
          THEN /\ ppOp' = "preprocess"
               /\ ppContent' = rdFile.content
               /\ ppOut' = done.result.content.value
               /\ ppPc' = "done"
          ELSE UNCHANGED <<ppOp, ppContent, ppOut, ppPc>>
  /\ rdPc' = "done"
  /\ UNCHANGED rdFile
  /\ UNCHANGED <<mainVars, tgVars, stVars, lgVars, ovVars, ldVars, cfVars>>

ReadNext == ReadDigest

ReadSpec == ReadInit /\ [][ReadNext]_vars

----------------------------------------------------------------------------
(* The start of the process: the modules analyzer.js imports are evaluated *)
(* in the order of its import declarations, each after its own imports,    *)
(* and before the body of analyzer.js; then the run writes to the log.     *)

\* what the body of a module passes to getLogger: nothing of the kind, no
\* argument, or config.app.logLevel
ModuleOrder ==
  << [module |-> "config/config.js", call |-> "none"],
     [module |-> "utils/logger.js", call |-> "none"],
     [module |-> "claude-client.js", call |-> "default"],
     [module |-> "telegram-client.js", call |-> "default"],
     [module |-> "utils/preprocessor.js", call |-> "default"],
     [module |-> "logwatch-reader.js", call |-> "default"],
     [module |-> "storage.js", call |-> "default"],
     [module |-> "analyzer.js", call |-> "configured"] >>

\* getLogger(logPath = null, logLevel = 'info'): the level of the instance
\* it returns, which is a new Logger only when there is no instance yet
getLogger(exists, level, logLevel) == IF exists THEN level ELSE logLevel

LoadInit ==
  /\ MainIdle
  /\ tgCtx = "none"
  /\ tgPc = "idle"
  /\ tgMessage = <<>>
  /\ tgChunks = <<>>
  /\ tgQueue = <<>>
  /\ tgIdx = 0
  /\ tgTry = 0
  /\ tgLog = <<>>
  /\ sent = <<>>
  /\ PpIdle
  /\ StIdle
  /\ lgLevel = "none"
  /\ lgFiles = NoFiles
  /\ lgNext = 1
  /\ lgCall = NoCall
  /\ lgFault = NoLogFault
  /\ OvIdle
  /\ ldPc = 0
  /\ ldConfigured \in DOMAIN levels
  /\ loggerInstance = FALSE
  /\ RdIdle
  /\ CfIdle

\* the body of the next module of the order is evaluated
EvaluateModule ==
  /\ ldPc < Len(ModuleOrder)
  /\ ldPc' = ldPc + 1
  /\ IF ModuleOrder[ldPc + 1].call = "none"
     THEN UNCHANGED <<lgLevel, loggerInstance>>
     ELSE /\ lgLevel' = getLogger(loggerInstance, lgLevel,
                                  IF ModuleOrder[ldPc + 1].call = "configured"
                                  THEN ldConfigured ELSE "info")
          /\ loggerInstance' = TRUE
  /\ UNCHANGED <<ldConfigured, lgFiles, lgNext, lgCall, lgFault>>
  /\ UNCHANGED <<mainVars, tgVars, ppVars, stVars, ovVars, rdVars, cfVars>>

\* main() and the components log through the instance
RunWrites ==
  /\ ldPc = Len(ModuleOrder)
  /\ WriteCall

LoadNext == EvaluateModule \/ RunWrites

LoadSpec == LoadInit /\ [][LoadNext]_vars

-----------------------------------------------------------------------------
(* Two runs of main that overlap on one database file.  Each run has its   *)
(* own in-memory database (ovRows) and shares the file (dbFile) with the   *)
(* other; nothing in the program locks the file.  The steps of a run are   *)
(* the calls of main on the storage, in the order main makes them; the     *)
(* steps of the two runs interleave freely.                                *)

\* the analysis each run saves: the runs analyse different digests
RunAnalysis == [run \in Runs |-> IF run = "A" THEN FallbackAnalysis ELSE Healthy("Good").obj]

OverlapInit ==
  /\ MainIdle
  /\ tgCtx = "none"
  /\ tgPc = "idle"
  /\ tgMessage = <<>>
  /\ tgChunks = <<>>
  /\ tgQueue = <<>>
  /\ tgIdx = 0
  /\ tgTry = 0
  /\ tgLog = <<>>
  /\ sent = <<>>
  /\ PpIdle
  /\ dbOpen = FALSE
  /\ dbRows = {}
  /\ dbFile \in DatabaseFiles
  /\ stCall = NoCall
  /\ stErrors = {}
  /\ dbFaults = {}
  /\ LgIdle
  /\ OvIdle
  /\ LdIdle
  /\ RdIdle
  /\ CfIdle

\* what a step of one run leaves alone
OverlapFrame ==
  UNCHANGED <<mainVars, tgVars, ppVars, dbOpen, dbRows, stCall, stErrors, dbFaults, lgVars,
              ldVars, rdVars, cfVars>>

\* initialize: new SQL.Database(fs.readFileSync(dbPath)), or an empty
\* database when the file does not exist
LoadImage(run) ==
  /\ ovPc[run] = "start"
  /\ ovRows' = [ovRows EXCEPT ![run] = dbFile]
  /\ ovPc' = [ovPc EXCEPT ![run] = "loaded"]
  /\ UNCHANGED dbFile
  /\ OverlapFrame

\* createSchema: CREATE TABLE IF NOT EXISTS, then saveToFile()
CreateSchema(run) ==
  /\ ovPc[run] = "loaded"
  /\ WriteFile(ovRows[run])
  /\ ovPc' = [ovPc EXCEPT ![run] = "ready"]
  /\ UNCHANGED ovRows
  /\ OverlapFrame

\* step 8 of main: storage.saveSummary(analysis)
OverlapSave(run) ==
  /\ ovPc[run] = "ready"
  /\ \E result \in {saveSummary(TRUE, TRUE, ovRows[run], RunAnalysis[run], "none")} :
       /\ ovRows' = [ovRows EXCEPT ![run] = result.rows]
       /\ IF result.saves THEN WriteFile(result.rows) ELSE UNCHANGED dbFile
  /\ ovPc' = [ovPc EXCEPT ![run] = "saved"]
  /\ OverlapFrame

\* step 8 of main, after a truthy insertId: storage.cleanup(90)
OverlapCleanup(run) ==
  /\ ovPc[run] = "saved"
  /\ \E result \in {cleanup(TRUE, TRUE, ovRows[run], KeepDays, "none")} :
       /\ ovRows' = [ovRows EXCEPT ![run] = result.rows]
       /\ IF result.saves THEN WriteFile(result.rows) ELSE UNCHANGED dbFile
  /\ ovPc' = [ovPc EXCEPT ![run] = "cleaned"]
  /\ OverlapFrame

\* storage.close() before process.exit(0): saveToFile(), then db.close()
OverlapClose(run) ==
  /\ ovPc[run] = "cleaned"
  /\ WriteFile(ovRows[run])
  /\ ovPc' = [ovPc EXCEPT ![run] = "closed"]
  /\ UNCHANGED ovRows
  /\ OverlapFrame

OverlapNext ==
  \E run \in Runs :
    \/ LoadImage(run)
    \/ CreateSchema(run)
    \/ OverlapSave(run)
    \/ OverlapCleanup(run)
    \/ OverlapClose(run)

OverlapSpec == OverlapInit /\ [][OverlapNext]_vars

----------------------------------------------------------------------------
(* Claims about the run *)

\* the texts sendAnalysisReport hands to the API for the analysis
ReportQueue ==
  LET message == formatAnalysisMessage(analysis)
      parts == splitMessage(message)
  IN IF StrLen(message) <= maxMessageLength THEN <<message>>
     ELSE [i \in 1..Len(parts) |-> PartMessage(i, Len(parts), parts[i])]

TextsTo(channel, ctx) ==
  LET Hit(m) == m.to = channel /\ m.ctx = ctx
      hits == SelectSeq(sent, Hit)
  IN [i \in 1..Len(hits) |-> hits[i].text]

\* C1 (as claimed): once sendAnalysisReport has returned, the archive channel
\* has received the report, and the alerts channel has received the same
\* report exactly when it is configured and the status is Satisfactory, Bad or
\* Awful; otherwise nothing was sent to an alerts channel.
C1_AlertsGating ==
  (pc = "exited" /\ exits = <<0>>) =>
    /\ TextsTo("archive", "report") # <<>>
    /\ IF /\ alertsChannelId # NULL
          /\ analysis.systemStatus \in {JStr(T("Satisfactory")), JStr(T("Bad")), JStr(T("Awful"))}
       THEN TextsTo(alertsChannelId, "report") = TextsTo("archive", "report")
       ELSE \A i \in DOMAIN sent : sent[i].to = "archive"

FailedAttempts == { p \in DOMAIN llmLog : llmLog[p].e = "attempt" /\ ~llmLog[p].ok }

\* a text of the report was refused twice
DeliveryFailed ==
  \E p, q \in DOMAIN tgLog :
    /\ p < q
    /\ tgLog[p].e = "send" /\ tgLog[q].e = "send"
    /\ tgLog[p].ctx = "report" /\ tgLog[q].ctx = "report"
    /\ tgLog[p].i = tgLog[q].i
    /\ ~tgLog[p].ok /\ ~tgLog[q].ok

C2_ExitIsJustified ==
  /\ Len(exits) <= 1
  /\ (pc = "exited") <=> (Len(exits) = 1)
  /\ \A i \in DOMAIN exits : exits[i] \in {0, 1}
  /\ exits = <<0>> =>
       /\ configValid
       /\ ctorFailure = "none"
       /\ fileState \in {"digest", "oversize"}
       /\ logContent = "digest"
       /\ llmLog # <<>>
       /\ llmLog[Len(llmLog)].e = "attempt"
       /\ llmLog[Len(llmLog)].ok
       /\ analysis # NoAnalysis
       /\ TextsTo("archive", "report") = ReportQueue
       /\ ~DeliveryFailed
  /\ ( \/ ~configValid
       \/ ctorFailure # "none"
       \/ fileState \in {"absent", "empty", "unreadable", "ioerror"}
       \/ Cardinality(FailedAttempts) = 3
       \/ DeliveryFailed ) => exits # <<0>>

\* C2: every run ends with exactly one process exit; status 0 is reached only
\* after the digest was read, the analysis was obtained and the report was
\* delivered; a failure of the configuration or of a constructor, of the
\* digest read (absent, empty, unreadable file), of the analysis (three failed
\* attempts) or of the delivery ends in status 1.
C2_RunEndsWithOneExit ==
  /\ []C2_ExitIsJustified
  /\ <>(pc = "exited")

\* the analysis failed three times and the run has exited
C2_Witness ==
  /\ pc = "exited"
  /\ exits = <<1>>
  /\ Cardinality(FailedAttempts) = 3

\* C3 (as claimed): when the run has ended, the parts of the report that
\* were delivered are all of its parts or none of them.
C3_NoPartialReport ==
  pc = "exited" =>
    LET got == TextsTo("archive", "report")
    IN got = <<>> \/ got = ReportQueue

AttemptsUpTo(p) == Cardinality({ q \in 1..p : llmLog[q].e = "attempt" })

C5_AnalysisWellFormed ==
  pc = "parsed" =>
    LET obj == llmContent.obj
        shapeOk == /\ llmContent.kind = "json"
                   /\ \A i \in 1..6 : obj[required[i]].t # "absent"
                   /\ obj.criticalIssues.t = "list"
                   /\ obj.warnings.t = "list"
                   /\ obj.recommendations.t = "list"
                   /\ obj.metrics.t = "map"
    IN /\ \E st \in validStatuses : analysis.systemStatus = JStr(T(st))
       /\ analysis.criticalIssues.t = "list"
       /\ analysis.warnings.t = "list"
       /\ analysis.recommendations.t = "list"
       /\ analysis.metrics.t = "map"
       /\ ~shapeOk => analysis = FallbackAnalysis
       /\ shapeOk =>
            analysis = IF \E st \in validStatuses : obj.systemStatus = JStr(T(st))
                       THEN obj
                       ELSE [obj EXCEPT !.systemStatus = JStr(T("Satisfactory"))]

NoJsonReceived ==
  /\ llmLog # <<>>
  /\ llmLog[Len(llmLog)].ok
  /\ llmContent.kind \in {"nojson", "badjson"}

\* C6: when the text of the response has no parseable JSON object,
\* analyzeLogwatch does not throw and makes no further attempt; it returns
\* exactly the fixed fallback, and the run goes on to saving and to sending
\* the report (the only error the run can still meet is a failed delivery).
C6_UnparseableGivesFallback ==
  LET fallback ==
        [systemStatus    |-> JStr(T("Satisfactory")),
         summary         |-> JStr(T("Failed to parse AI response. Manual review required.")),
         criticalIssues  |-> JList(<<T("AI response parsing failed")>>),
         warnings        |-> JList(<<>>),
         recommendations |-> JList(<<T("Review raw logwatch output manually")>>),
         metrics         |-> JMap(<<>>, <<>>)]
  IN
  NoJsonReceived =>
    /\ analysis = fallback
    /\ pc \in {"save", "report", "sending", "catch", "notifying", "exited"}
    /\ pc = "sending" => (tgCtx = "report" /\ tgMessage = formatAnalysisMessage(fallback))
    /\ pc \in {"catch", "notifying", "exited"} =>
         \E p \in DOMAIN tgLog : tgLog[p].ctx = "report" /\ tgLog[p].e = "send"
    /\ pc \in {"catch", "notifying"} => DeliveryFailed
    /\ pc = "exited" => (exits = <<0>> \/ DeliveryFailed)

\* a response without JSON ended in a delivered fallback report
C6_Witness ==
  /\ NoJsonReceived
  /\ llmContent.kind = "nojson"
  /\ pc = "exited"
  /\ exits = <<0>>
  /\ analysis.summary = JStr(T("Failed to parse AI response. Manual review required."))
  /\ \E i \in DOMAIN sent : sent[i].ctx = "report"

NoticeEvents == { p \in DOMAIN tgLog : tgLog[p].ctx = "error" }

Logged(text) == \E i \in DOMAIN errLog : errLog[i].msg = text

----------------------------------------------------------------------------
(* Claims about the Telegram client *)

\* the texts accepted by the API during the current call, in the order sent
SentTexts == [i \in 1..Len(sent) |-> sent[i].text]

\* a part as sent, without the injected "[Part K/N]\n\n" prefix
StripPartPrefix(text) == SubSeq(text, 4, Len(text))

\* the lines of a message, each followed by its newline
Terminated(lines) == Flatten([i \in 1..Len(lines) |-> lines[i] \o <<NL>>])

\* the sends of tgLog before position p that are for the same text as p
EarlierSends(p) ==
  { q \in 1..(p - 1) : /\ tgLog[q].e = "send"
                       /\ tgLog[q].ctx = tgLog[p].ctx
                       /\ tgLog[q].i = tgLog[p].i }

\* C7: for each message or chunk there are at most two send attempts; the
\* second attempt comes only after the first one failed and after one wait of
\* the retry delay (5000 ms); when the second attempt fails too the failure
\* is thrown to the caller, and there is never a third attempt.
C7_AtMostOneRetry ==
  \A p \in DOMAIN tgLog :
    tgLog[p].e = "send" =>
      /\ Cardinality(EarlierSends(p)) <= 1
      /\ EarlierSends(p) # {} =>
           /\ p >= 3
           /\ EarlierSends(p) = {p - 2}
           /\ ~tgLog[p - 2].ok
           /\ tgLog[p - 1].e = "sleep"
           /\ tgLog[p - 1].ms = 5000
      /\ (EarlierSends(p) # {} /\ ~tgLog[p].ok) =>
           /\ \A q \in (p + 1)..Len(tgLog) : tgLog[q].ctx # tgLog[p].ctx
           /\ (tgCtx = tgLog[p].ctx => tgPc = "thrown")
      /\ (EarlierSends(p) = {} /\ ~tgLog[p].ok /\ p = Len(tgLog)) => tgPc = "retryWait"

\* a retry has failed and the failure was thrown to the caller
C7_Witness ==
  /\ tgPc = "thrown"
  /\ Len(tgLog) >= 3
  /\ ~tgLog[Len(tgLog)].ok
  /\ tgLog[Len(tgLog) - 1].e = "sleep"

\* C9 (as claimed): when a composed message is longer than 4096 characters,
\* every chunk made by splitting is at most 4046 characters long and ends at
\* the end of a line.
C9_ChunksFit ==
  (tgPc # "idle" /\ StrLen(tgMessage) > 4096) =>
    \A i \in 1..Len(tgChunks) :
      /\ StrLen(tgChunks[i]) <= 4046
      /\ tgChunks[i][Len(tgChunks[i])] = NL

\* C10: splitting is lossless: the bodies of the parts, in the order they were
\* sent and without the "[Part K/N]" prefixes, are together the lines of the
\* message in their original order, none lost and none twice (a message that
\* fits is sent as it is).
C10_SplitLossless ==
  (tgCtx = "direct" /\ tgPc = "returned") =>
    IF StrLen(tgMessage) <= maxMessageLength
    THEN SentTexts = <<tgMessage>>
    ELSE /\ Len(sent) = Len(tgChunks)
         /\ Flatten([i \in 1..Len(sent) |-> StripPartPrefix(SentTexts[i])])
              = Terminated(split(tgMessage))

\* a message was split into several parts and all of them were sent
C10_Witness ==
  /\ tgCtx = "direct"
  /\ tgPc = "returned"
  /\ Len(tgChunks) >= 2
  /\ Len(sent) = Len(tgChunks)

----------------------------------------------------------------------------
(* The preprocessor.                                                       *)

\* C11: for a digest whose estimated token count is at or below the
\* ceiling, preprocess returns its input unchanged, reports equal original
\* and processed token counts, and reports zero lines deduplicated, zero
\* lines removed and zero sections compressed
C11_PassThrough ==
  (ppPc = "done" /\ ppOp = "preprocess" /\ estimateTokens(ppContent) <= maxTokens)
  => /\ ppOut = ppContent
     /\ ppStats.originalTokens = ppStats.processedTokens
     /\ ppStats.linesDeduplicated = 0
     /\ ppStats.linesRemoved = 0
     /\ ppStats.sectionsCompressed = 0

\* a digest below the ceiling with a noise line repeated in a section of
\* more than 3 lines went through preprocess
C11_Witness ==
  /\ ppPc = "done" /\ ppOp = "preprocess"
  /\ estimateTokens(ppContent) <= maxTokens
  /\ ppStats.originalTokens > 0
  /\ \E section \in {parseSections(ppContent)[1]} :
       /\ Len(section.lines) > 3
       /\ \E i, j \in 1..Len(section.lines) :
            i < j /\ Noise(section.lines[i]) # {} /\ section.lines[i] = section.lines[j]

\* C12: the output of preprocess, re-estimated with estimateTokens, does
\* not exceed the ceiling, and neither does stats.processedTokens
C12_OutputWithinCeiling ==
  (ppPc = "done" /\ ppOp = "preprocess")
  => /\ estimateTokens(ppOut) <= maxTokens
     /\ ppStats.processedTokens <= maxTokens

\* the lines of a section in which the pattern matches with the address
Matching(lines, pattern, address) ==
  { i \in 1..Len(lines) :
      \E m \in Noise(lines[i]) :
        /\ \A o \in Noise(lines[i]) : m <= o
        /\ lines[i][m].pat = pattern /\ lines[i][m].ip = address }

\* the lines that read 'n similar <pattern> events from <address>'
Summaries(lines, pattern, address) ==
  { i \in 1..Len(lines) :
      \E n \in 2..(MaxDigestLines + 1) : trim(lines[i]) = trim(summaryLine(n, pattern, address)) }

\* the addresses that occur in the lines
Addresses(lines) ==
  UNION { { lines[i][m].ip : m \in 1..Len(lines[i]) } : i \in 1..Len(lines) } \ {""}

\* C13: deduplicating a section of more than 3 lines leaves, for each noise
\* pattern and address with N matching lines, exactly one line: the summary
\* 'N similar <pattern> events from <address>' when N > 1, the original
\* line when N = 1
C13_OneLinePerGroup ==
  (ppPc = "done" /\ ppOp = "deduplicate")
  => \A s \in 1..Len(ppOut) :
       \E before \in {parseSections(ppContent)[s].lines}, after \in {ppOut[s]} :
         Len(before) > 3
         => \A pattern \in DEDUP_PATTERNS, address \in Addresses(before) :
              \E N \in {Cardinality(Matching(before, pattern, address))} :
                /\ N > 1 =>
                     /\ Matching(after, pattern, address) = {}
                     /\ Cardinality(Summaries(after, pattern, address)) = 1
                     /\ \A i \in Summaries(after, pattern, address) :
                          after[i] = summaryLine(N, pattern, address)
                /\ N = 1 =>
                     /\ Summaries(after, pattern, address) = {}
                     /\ Cardinality(Matching(after, pattern, address)) = 1
                     /\ \A i \in Matching(after, pattern, address) :
                          \A j \in Matching(before, pattern, address) : after[i] = before[j]

\* the whitespace-delimited tokens of a text: its words
WordCount(text) ==
  Sum([i \in 1..Len(text) |-> text[i].w])
  - Cardinality({ i \in 1..(Len(text) - 1) : text[i].k = "wd" /\ text[i + 1].k = "wd" })

\* C14: estimateTokens(text) is the larger of ceil(word_count / 0.75) and
\* ceil(character_count / 4), word_count being the number of
\* whitespace-delimited tokens of the text, and 0 for the empty text
C14_TokenEstimate ==
  (ppPc = "done" /\ ppOp = "estimateTokens")
  => ppOut = IF ppContent = <<>> THEN 0
             ELSE Max((4 * WordCount(ppContent) + 2) \div 3, (textLength(ppContent) + 3) \div 4)

----------------------------------------------------------------------------
(* The storage.                                                            *)

Window == { r \in stCall.before : r.timestamp >= Now - stCall.days * Day }

\* what the context says of a row: its date, its summary and its counts
Entry(r) ==
  <<Lit("Date: " \o r.date), NL, Lit("Summary: ")>> \o r.summary
  \o <<NL, Lit("Critical Issues: " \o ToString(r.critical_count) \o ", Warnings: "
                \o ToString(r.warning_count))>>

\* the places of a text where the entry of the row stands
EntryAt(text, r) ==
  { i \in 1..Len(text) :
      i + Len(Entry(r)) - 1 <= Len(text) /\ SubSeq(text, i, i + Len(Entry(r)) - 1) = Entry(r) }

\* the places of a text where a date line stands
DatesAt(text) == { i \in 1..Len(text) : \E r \in stCall.before : text[i] = Entry(r)[1] }

C16_OldRowsRemoved ==
  (pc = "exited" /\ storageEnabled)
  => \A r \in dbRows \cup dbFile : r.timestamp >= Now - KeepDays * Day

\* the operations of the storage that logged a failure
StorageFailed == stErrors # {}

\* the errors the reader, the Claude client and the Telegram client throw
\* into main
OtherErrors ==
  { ErrCtor, ErrPermission, ErrRead, ErrEmptyLog, ErrNotFound, ErrReplace, ErrSend }
  \cup { ErrRetriesExhausted(e) : e \in {ErrTimeout, ErrNoText} }

\* what the last call returned is the sentinel of its operation
Sentinel ==
  CASE stCall.op = "cleanup" -> stCall.ret = Value(0)
    [] stCall.op = "getRecentSummaries" -> stCall.ret = Value(<<>>)
    [] OTHER -> stCall.ret = Absent

LinesOf(file) == { file.lines[i] : i \in 1 .. Len(file.lines) }

\* the numbers of the lines in all the files
AllLines(files) == UNION { LinesOf(files[k]) : k \in DOMAIN files }

\* C19: with one of the four levels configured, a logging call writes its
\* line if and only if the rank of the level of the message is at least the
\* rank of the configured level (the append not failing)
C19_WritesFromConfiguredLevel ==
  (lgCall.op = "write" /\ lgLevel \in DOMAIN levels /\ ~lgCall.appendFailed)
  => ( (lgCall.line \in LinesOf(lgFiles[0]))
       <=> (levels[lgCall.level] >= levels[lgLevel]) )

IsNumeral(text) == text # <<>> /\ \A i \in 1 .. Len(text) : IsDigit(text[i])

\* the variable is supplied: it is set, to a value that is not empty
Supplied(setting) == setting.set /\ setting.text # <<>>

\* the supplied value is an integer between 1 and 100
SizeInRange(setting) ==
  /\ IsNumeral(setting.text)
  /\ leadingDigits(setting.text, 0, 0).value \in 1 .. 100

\* C21: with every other variable well-formed, new Config() throws the
\* configuration error whenever the supplied MAX_LOG_SIZE_MB is not an
\* integer between 1 and 100, and the default 10 is used only when the
\* variable is not supplied
C21_SizeValidated ==
  (cfPc = "done" /\ cfEnv.ANTHROPIC_API_KEY = "wellformed"
                 /\ cfEnv.TELEGRAM_CHANNEL_ARCHIVE_ID = "wellformed")
  => /\ (Supplied(cfEnv.MAX_LOG_SIZE_MB) /\ ~SizeInRange(cfEnv.MAX_LOG_SIZE_MB))
          => cfOut.error = "MAX_LOG_SIZE_MB must be between 1 and 100"
     /\ (cfOut.error = "none" /\ cfOut.maxSizeMB = 10)
          => (~Supplied(cfEnv.MAX_LOG_SIZE_MB) \/ SizeInRange(cfEnv.MAX_LOG_SIZE_MB))

\* the preprocessor was not called
NotPreprocessed == ppPc = "idle" /\ ppStats = NewStats

\* text is the first bytes of content, for that number of bytes
IsFirstBytes(text, content, bytes) ==
  /\ textLength(text) = bytes
  /\ Len(text) \in 1 .. Len(content)
  /\ \A i \in 1 .. Len(text) - 1 : text[i] = content[i]
  /\ \E n \in {text[Len(text)].n} :
       n \in 1 .. content[Len(text)].n /\ text[Len(text)] = [content[Len(text)] EXCEPT !.n = n]

SectionsBefore == [s \in 1..Len(ppOut) |-> parseSections(ppContent)[s].lines]

\* C23: deduplicating a section of more than 3 lines preserves its header,
\* delimiter and blank lines verbatim: the lines of these kinds are the same
\* before and after, in the same order
C23_KeptLinesPreserved ==
  (ppPc = "done" /\ ppOp = "deduplicate")
  => \A s \in 1..Len(ppOut) :
       Len(SectionsBefore[s]) > 3
       => SelectSeq(ppOut[s], isKept) = SelectSeq(SectionsBefore[s], isKept)

\* a line that is neither kept as it is nor grouped by a noise pattern
IsPlain(line) == ~isKept(line) /\ Noise(line) = {}

\* the places among the five lines after place i whose text is that of line i
Repeats(lines, i) ==
  { j \in (i + 1) .. (IF i + 5 < Len(lines) THEN i + 5 ELSE Len(lines)) :
      trim(lines[j]) = trim(lines[i]) }

\* C24: in a section of more than 3 lines, the first plain line that has
\* k >= 1 exact repeats among the next five lines (and none further on) is
\* emitted once, annotated '(repeated (k+1)x)': the annotated line is in
\* the result and the line without annotation is not
C24_RepeatsCollapsed ==
  (ppPc = "done" /\ ppOp = "deduplicate")
  => \A s \in 1..Len(ppOut) :
       \E before \in {SectionsBefore[s]}, after \in {ppOut[s]} :
         \A i \in 1..Len(before) :
           ( /\ Len(before) > 3
             /\ IsPlain(before[i])
             /\ \A h \in 1..(i - 1) : ~IsPlain(before[h])
             /\ Repeats(before, i) # {}
             /\ \A j \in (i + 1)..Len(before) :
                  trim(before[j]) = trim(before[i]) => j \in Repeats(before, i) )
           => /\ \E j \in 1..Len(after) :
                   after[j] = repeatedLine(before[i], Cardinality(Repeats(before, i)) + 1)
              /\ \A j \in 1..Len(after) : trim(after[j]) # trim(before[i])

\* the sections handed to compressSections: the sections of the digest,
\* each deduplicated
CompressInput ==
  [s \in 1..Len(parseSections(ppContent)) |->
     deduplicateSection(parseSections(ppContent)[s]).section]

\* preprocess went as far as compressSections: the digest and its
\* deduplicated form are both above the ceiling
CompressReached ==
  /\ ppPc = "done" /\ ppOp = "preprocess"
  /\ ~isBlank(ppContent)
  /\ estimateTokens(ppContent) > maxTokens
  /\ estimateTokens(join([s \in 1..Len(CompressInput) |-> CompressInput[s].content],
                         <<DNl, DNl>>)) > maxTokens

\* C25: the output of compressSections is the processed content of every
\* input section, once each and in the order of the digest, joined by blank
\* lines, also when two sections have the same name and header
C25_EverySectionOnceInOrder ==
  CompressReached
  => ppOut = join([s \in 1..Len(CompressInput) |-> compressOne(CompressInput[s]).content],
                  <<DNl, DNl>>)

\* C26: parseSections partitions the digest: the line lists of the sections
\* it returns, concatenated in order, are exactly the lines of the digest
C26_SectionsPartition ==
  (ppPc = "done" /\ ppOp = "parseSections")
  => Flatten(ppOut) = splitLines(ppContent)

\* C27: once the modules are loaded, the logger of the process operates at
\* the configured level
C27_LoggerAtConfiguredLevel ==
  (ldPc = Len(ModuleOrder) /\ loggerInstance) => lgLevel = ldConfigured

\* C28: a run that ends with failure status adds no row to the summaries
\* table: the database file holds no row of this run
C28_FailedRunAddsNoRow ==
  (pc = "exited" /\ exits = <<1>>) => \A r \in dbFile : r.timestamp # Now

\* C30: saveSummary returns a row identifier, and main takes the analysis
\* as persisted, only if the image with the new row was written to the
\* database file
C30_SavedOnlyIfWritten ==
  saved => \E r \in dbFile : r.timestamp = Now

\* the row a run inserted
RunRow(run, row) ==
  row.timestamp = Now /\ row.summary = summaryOr(RunAnalysis[run].summary)

\* C29: when two runs overlap on one database file, the file holds, after
\* both runs have completed, the rows inserted by both runs
C29_BothRowsKept ==
  (\A run \in Runs : ovPc[run] = "closed")
    => \A run \in Runs : \E row \in dbFile : RunRow(run, row)

====
